---- MODULE Spec2Model ----
(***************************************************************************)
(* The hardware control loop of main_controller.py (run_hardware_loop),    *)
(* with the settings store it reads, the relays it drives and the          *)
(* update_settings endpoint that writes the store from the API thread.     *)
(*                                                                         *)
(* One Tick is one iteration of the loop body (lines 201-415): settings    *)
(* load, lights, pumps, circulation fans, sensors and exhaust fans, water  *)
(* safety, telemetry.  An exception raised in the body ends the iteration  *)
(* where it is raised; what the iteration did before stays done.           *)
(***************************************************************************)
EXTENDS Integers, Sequences, FiniteSets, TLC

VARIABLES
    settings,          \* the settings table: key -> value text
    hardware_state,    \* the hardware_state dictionary
    gpio,              \* level of every relay output pin
    sensor_readings,   \* the sensor_readings table (append-only rows)
    latest_state,      \* the 'sensors' row of the latest_state table
    local,             \* the loop's local variables, as the last iteration left them
    clock,             \* time.monotonic(), in seconds
    pc,                \* where the loop thread is: "loop", "sleep", "backoff", "done"
    shutdown_event     \* the threading.Event that stops the loop

vars == <<settings, hardware_state, gpio, sensor_readings, latest_state,
          local, clock, pc, shutdown_event>>

-----------------------------------------------------------------------------
(* GPIO levels and pins                                                    *)

LOW == 0
HIGH == 1

LIGHTS_PINS == <<6, 7, 8, 9, 20, 21>>
PUMPS_PINS == <<27, 5, 10, 11, 12>>
EXHAUST_FANS_PINS == <<13, 16>>
CIRCULATION_FANS_PINS == <<19, 26>>
DHT_PINS_BCM == <<4, 18>>
FLOAT_SENSORS_PINS == <<17, 23, 24>>
OVERFLOW_SENSOR_PIN == 25
SOLENOID_RELAY_PIN == 22

Range(seq) == {seq[i] : i \in DOMAIN seq}

relay_pins ==
    Range(LIGHTS_PINS) \cup Range(PUMPS_PINS) \cup Range(EXHAUST_FANS_PINS)
        \cup Range(CIRCULATION_FANS_PINS) \cup {SOLENOID_RELAY_PIN}

\* Python's None, for an instant (solenoid_start_time) and for water_error.
NoTime == -1
NoError == "None"

\* Seconds the loop sleeps after an iteration that completed / that raised,
\* and the telemetry period.
TICK_SLEEP == 2
ERROR_SLEEP == 10
LOG_PERIOD == 60
\* last_sensor_log_time starts 301 s before the process start.
FIRST_LOG_OFFSET == 301

-----------------------------------------------------------------------------
(* The settings store                                                      *)

LightsModeKey == <<"lightsMode1", "lightsMode2", "lightsMode3",
                   "lightsMode4", "lightsMode5", "lightsMode6">>
PumpModeKey == <<"pumpMode1", "pumpMode2", "pumpMode3", "pumpMode4", "pumpMode5">>
ExhaustFanModeKey == <<"exhaustFanMode1", "exhaustFanMode2">>
CirculationFanModeKey == <<"circulationFanMode1", "circulationFanMode2">>

SharedKeys ==
    {"lightsOnTime", "lightsOffTime", "pumpOnDuration", "pumpOffDuration",
     "exhaustFanTempHigh", "exhaustFanTempLow", "exhaustFanHumidHigh",
     "exhaustFanHumidLow", "circulationFanOnDuration",
     "circulationFanOffDuration", "waterSystemMode", "maxFillTime"}

SettingsKeys ==
    SharedKeys \cup Range(LightsModeKey) \cup Range(PumpModeKey)
        \cup Range(ExhaustFanModeKey) \cup Range(CirculationFanModeKey)

\* init_db's default_settings, each stored as str(value).
default_settings ==
    [k \in SettingsKeys |->
        CASE k = "lightsOnTime" -> "06:00"
          [] k = "lightsOffTime" -> "22:00"
          [] k = "pumpOnDuration" -> "900"
          [] k = "pumpOffDuration" -> "2700"
          [] k = "exhaustFanTempHigh" -> "27.0"
          [] k = "exhaustFanTempLow" -> "23.0"
          [] k = "exhaustFanHumidHigh" -> "65.0"
          [] k = "exhaustFanHumidLow" -> "55.0"
          [] k = "circulationFanOnDuration" -> "1800"
          [] k = "circulationFanOffDuration" -> "1800"
          [] k = "waterSystemMode" -> "auto"
          [] k = "maxFillTime" -> "600"
          [] k \in Range(LightsModeKey) -> "schedule"
          [] k \in Range(PumpModeKey) -> "cycle"
          [] k \in Range(ExhaustFanModeKey) -> "auto"
          [] OTHER -> "cycle"]

\* The texts int(value) accepts (no '.' in them) and the number each denotes.
IntText ==
    [t \in {"0", "1", "2", "3", "4", "5", "6", "8", "20", "21", "23", "25", "27",
            "50", "55", "60", "65", "600", "900", "1800", "2700"} |->
        CASE t = "0" -> 0 [] t = "1" -> 1 [] t = "2" -> 2 [] t = "3" -> 3
          [] t = "4" -> 4 [] t = "5" -> 5 [] t = "6" -> 6 [] t = "8" -> 8
          [] t = "20" -> 20 [] t = "21" -> 21 [] t = "23" -> 23 [] t = "25" -> 25
          [] t = "27" -> 27 [] t = "50" -> 50 [] t = "55" -> 55 [] t = "60" -> 60
          [] t = "65" -> 65 [] t = "600" -> 600 [] t = "900" -> 900
          [] t = "1800" -> 1800 [] OTHER -> 2700]

\* The texts with a '.' that float(value) accepts.
FloatText ==
    [t \in {"21.0", "23.0", "25.0", "27.0", "50.0", "55.0", "65.0"} |->
        CASE t = "21.0" -> 21 [] t = "23.0" -> 23 [] t = "25.0" -> 25
          [] t = "27.0" -> 27 [] t = "50.0" -> 50 [] t = "55.0" -> 55
          [] OTHER -> 65]

\* The texts strptime(text, "%H:%M") accepts, as minutes after midnight.
TimeText ==
    [t \in {"00:00", "06:00", "08:00", "12:00", "20:00", "22:00"} |->
        CASE t = "00:00" -> 0 [] t = "06:00" -> 360 [] t = "08:00" -> 480
          [] t = "12:00" -> 720 [] t = "20:00" -> 1200 [] OTHER -> 1320]

\* Lines 212-220: a value becomes a float when it has a '.', else an int; a
\* text neither conversion accepts stays the string it was.
\* is_num tells a number from a string; num is the number, str the string.
ParseSetting(value) ==
    IF value \in DOMAIN FloatText
      THEN [is_num |-> TRUE, num |-> FloatText[value], float |-> TRUE, str |-> ""]
    ELSE IF value \in DOMAIN IntText
      THEN [is_num |-> TRUE, num |-> IntText[value], float |-> FALSE, str |-> ""]
    ELSE [is_num |-> FALSE, num |-> 0, float |-> FALSE, str |-> value]

\* float(x) of a loaded value: the number itself; of a string that is no
\* number, ValueError.
FloatRaises(x) == ~x.is_num
Float(x) == x.num

\* x == "text" for a loaded value x.
IsStr(x, text) == ~x.is_num /\ x.str = text

\* strptime(str(x), "%H:%M"): str() of a number is never HH:MM.
TimeRaises(x) == x.is_num \/ x.str \notin DOMAIN TimeText
Time(x) == TimeText[x.str]

-----------------------------------------------------------------------------
(* toggle_relay                                                            *)

\* A toggle_relay that answers a failed GPIO access with the state it last
\* knew of instead of False.
toggle_relay_FaultKeepsState(level, desired_state_on, fault) ==
    LET is_currently_on == (level = LOW)
    IN  IF fault THEN [level |-> level, ret |-> is_currently_on]
        ELSE IF desired_state_on /\ ~is_currently_on
          THEN [level |-> LOW, ret |-> TRUE]
        ELSE IF ~desired_state_on /\ is_currently_on
          THEN [level |-> HIGH, ret |-> FALSE]
        ELSE [level |-> level, ret |-> is_currently_on]

\* Lines 176-193.  level is the pin's level, fault tells whether GPIO access
\* to the pin raises.  The result is the pin's level afterwards and the
\* value returned.
toggle_relay(level, desired_state_on, fault) ==
    LET is_currently_on == (level = LOW)
    IN  IF fault THEN [level |-> level, ret |-> FALSE]
        ELSE IF desired_state_on /\ ~is_currently_on
          THEN [level |-> LOW, ret |-> TRUE]
        ELSE IF ~desired_state_on /\ is_currently_on
          THEN [level |-> HIGH, ret |-> FALSE]
        ELSE [level |-> level, ret |-> is_currently_on]

\* The channel of a pin within its pin list: enumerate(pins), inverted.
ChannelOf(pins) == [pin \in Range(pins) |-> CHOOSE i \in DOMAIN pins : pins[i] = pin]
LightChannel == ChannelOf(LIGHTS_PINS)
PumpChannel == ChannelOf(PUMPS_PINS)
ExhaustFanChannel == ChannelOf(EXHAUST_FANS_PINS)
CirculationFanChannel == ChannelOf(CIRCULATION_FANS_PINS)

-----------------------------------------------------------------------------
(* One iteration of the loop body, step by step.                           *)
(*                                                                         *)
(* A step takes the running state s of the iteration and the iteration's   *)
(* inputs in, and gives the state after the step:                          *)
(*   s.settings, s.hs, s.gpio, s.rows, s.latest, s.loc  the program state  *)
(*   s.now   the value time.monotonic() returns in this iteration          *)
(*   s.exc   an exception has been raised: the remaining steps are skipped *)
(*   in.tod        wall-clock time of day (minutes after midnight)         *)
(*   in.dht        what each DHT device returns: [valid, temp, hum]        *)
(*   in.floats     level read on each float sensor pin                     *)
(*   in.overflow   level read on the overflow sensor pin                   *)
(*   in.gpio_fail  pins on which GPIO access raises                        *)
(*   in.db_fail    database operations that raise: "load", "reset", "log"  *)
(* s.loc.db is the connection the local variable db refers to: "unbound"   *)
(* before the first get_db(), "open" after get_db(), "closed" after        *)
(* db.close().                                                             *)

Raise(s) == [s EXCEPT !.exc = TRUE]

\* A load that keeps the four durations as the iteration before loaded them.
LoadSettings_KeepsDurations(s, in) ==
    IF "load" \in in.db_fail THEN Raise([s EXCEPT !.loc.db = "open"])
    ELSE [s EXCEPT
            !.loc.db = "closed",
            !.loc.app_settings =
                [k \in DOMAIN s.settings |->
                    IF k \in {"pumpOnDuration", "pumpOffDuration",
                              "circulationFanOnDuration", "circulationFanOffDuration"}
                      THEN s.loc.app_settings[k]
                      ELSE ParseSetting(s.settings[k])],
            !.loc.current_time_for_schedule = in.tod,
            !.loc.monotonic_time = s.now]

\* Lines 203-225: load the settings table and read the clocks.  A SELECT
\* that raises (line 206) leaves before db.close() (line 207).
LoadSettings(s, in) ==
    IF "load" \in in.db_fail THEN Raise([s EXCEPT !.loc.db = "open"])
    ELSE [s EXCEPT
            !.loc.db = "closed",
            !.loc.app_settings = [k \in DOMAIN s.settings |-> ParseSetting(s.settings[k])],
            !.loc.current_time_for_schedule = in.tod,
            !.loc.monotonic_time = s.now]

\* A schedule window that never wraps midnight.
ScheduleOn_NoWrap(on_time, off_time, now) ==
    on_time <= now /\ now < off_time

\* Lines 231-234 (hp.py 96-99): the schedule window, overnight wrap included.
ScheduleOn(on_time, off_time, now) ==
    IF on_time <= off_time
      THEN on_time <= now /\ now < off_time
      ELSE now >= on_time \/ now < off_time

\* Lines 237-243: what a light's mode asks for.
LightShouldOn(mode, schedule_on) ==
    IF IsStr(mode, "schedule") THEN schedule_on
    ELSE IF IsStr(mode, "on") THEN TRUE
    ELSE FALSE

\* Lines 227-244.
LightsControl(s, in) ==
    IF s.exc THEN s
    ELSE LET app == s.loc.app_settings
         IN  IF TimeRaises(app["lightsOnTime"]) \/ TimeRaises(app["lightsOffTime"])
               THEN Raise(s)
             ELSE
               LET schedule_on == ScheduleOn(Time(app["lightsOnTime"]),
                                             Time(app["lightsOffTime"]),
                                             s.loc.current_time_for_schedule)
                   g == [p \in DOMAIN s.gpio |->
                           IF p \in DOMAIN LightChannel
                             THEN toggle_relay(
                                    s.gpio[p],
                                    LightShouldOn(app[LightsModeKey[LightChannel[p]]],
                                                  schedule_on),
                                    p \in in.gpio_fail).level
                             ELSE s.gpio[p]]
               IN  [s EXCEPT !.gpio = g, !.loc.schedule_on = schedule_on]

\* A manual "on" that records what toggle_relay returns as the cycle state.
CycleChannel_ManualRecorded(is_on, last_toggle, level, mode, on_duration, off_duration, now, fault) ==
    IF IsStr(mode, "cycle")
      THEN IF is_on
             THEN IF now - last_toggle >= on_duration
                    THEN LET r == toggle_relay(level, FALSE, fault)
                         IN  [is_on |-> r.ret, last_toggle |-> now, level |-> r.level]
                    ELSE [is_on |-> is_on, last_toggle |-> last_toggle, level |-> level]
             ELSE IF now - last_toggle >= off_duration
                    THEN LET r == toggle_relay(level, TRUE, fault)
                         IN  [is_on |-> r.ret, last_toggle |-> now, level |-> r.level]
                    ELSE [is_on |-> is_on, last_toggle |-> last_toggle, level |-> level]
    ELSE IF IsStr(mode, "on")
      THEN [is_on |-> toggle_relay(level, TRUE, fault).ret, last_toggle |-> last_toggle,
            level |-> toggle_relay(level, TRUE, fault).level]
    ELSE [is_on |-> is_on, last_toggle |-> last_toggle,
          level |-> toggle_relay(level, FALSE, fault).level]

\* An engine that flips without stamping last_toggle.
CycleChannel_KeepsInstant(is_on, last_toggle, level, mode, on_duration, off_duration, now, fault) ==
    IF IsStr(mode, "cycle")
      THEN IF is_on
             THEN IF now - last_toggle >= on_duration
                    THEN LET r == toggle_relay(level, FALSE, fault)
                         IN  [is_on |-> r.ret, last_toggle |-> last_toggle, level |-> r.level]
                    ELSE [is_on |-> is_on, last_toggle |-> last_toggle, level |-> level]
             ELSE IF now - last_toggle >= off_duration
                    THEN LET r == toggle_relay(level, TRUE, fault)
                         IN  [is_on |-> r.ret, last_toggle |-> last_toggle, level |-> r.level]
                    ELSE [is_on |-> is_on, last_toggle |-> last_toggle, level |-> level]
    ELSE IF IsStr(mode, "on")
      THEN [is_on |-> is_on, last_toggle |-> last_toggle,
            level |-> toggle_relay(level, TRUE, fault).level]
    ELSE [is_on |-> is_on, last_toggle |-> last_toggle,
          level |-> toggle_relay(level, FALSE, fault).level]

\* An engine that flips only once the elapsed time exceeds the duration.
CycleChannel_Strict(is_on, last_toggle, level, mode, on_duration, off_duration, now, fault) ==
    IF IsStr(mode, "cycle")
      THEN IF is_on
             THEN IF now - last_toggle > on_duration
                    THEN LET r == toggle_relay(level, FALSE, fault)
                         IN  [is_on |-> r.ret, last_toggle |-> now, level |-> r.level]
                    ELSE [is_on |-> is_on, last_toggle |-> last_toggle, level |-> level]
             ELSE IF now - last_toggle > off_duration
                    THEN LET r == toggle_relay(level, TRUE, fault)
                         IN  [is_on |-> r.ret, last_toggle |-> now, level |-> r.level]
                    ELSE [is_on |-> is_on, last_toggle |-> last_toggle, level |-> level]
    ELSE IF IsStr(mode, "on")
      THEN [is_on |-> is_on, last_toggle |-> last_toggle,
            level |-> toggle_relay(level, TRUE, fault).level]
    ELSE [is_on |-> is_on, last_toggle |-> last_toggle,
          level |-> toggle_relay(level, FALSE, fault).level]

\* Lines 251-264 (and 271-284): one pump or circulation fan.  The result is
\* the channel's is_on flag, its last-toggle instant and its pin level.
CycleChannel(is_on, last_toggle, level, mode, on_duration, off_duration, now, fault) ==
    IF IsStr(mode, "cycle")
      THEN IF is_on
             THEN IF now - last_toggle >= on_duration
                    THEN LET r == toggle_relay(level, FALSE, fault)
                         IN  [is_on |-> r.ret, last_toggle |-> now, level |-> r.level]
                    ELSE [is_on |-> is_on, last_toggle |-> last_toggle, level |-> level]
             ELSE IF now - last_toggle >= off_duration
                    THEN LET r == toggle_relay(level, TRUE, fault)
                         IN  [is_on |-> r.ret, last_toggle |-> now, level |-> r.level]
                    ELSE [is_on |-> is_on, last_toggle |-> last_toggle, level |-> level]
    ELSE IF IsStr(mode, "on")
      THEN [is_on |-> is_on, last_toggle |-> last_toggle,
            level |-> toggle_relay(level, TRUE, fault).level]
    ELSE [is_on |-> is_on, last_toggle |-> last_toggle,
          level |-> toggle_relay(level, FALSE, fault).level]

\* Lines 255-256, 259-260: the pumps' flags, instants and pins, ch[i] being
\* what CycleChannel gives for pump i.
SetPumps(s, ch) ==
    [s EXCEPT
       !.hs.pumps_on = [i \in DOMAIN PUMPS_PINS |-> ch[i].is_on],
       !.hs.last_pumps_toggle = [i \in DOMAIN PUMPS_PINS |-> ch[i].last_toggle],
       !.gpio = [p \in DOMAIN s.gpio |->
                   IF p \in DOMAIN PumpChannel THEN ch[PumpChannel[p]].level
                   ELSE s.gpio[p]]]

\* Lines 246-264.
PumpsControl(s, in) ==
    IF s.exc THEN s
    ELSE IF FloatRaises(s.loc.app_settings["pumpOnDuration"])
            \/ FloatRaises(s.loc.app_settings["pumpOffDuration"])
      THEN Raise(s)
    ELSE SetPumps(s, [i \in DOMAIN PUMPS_PINS |->
                        CycleChannel(s.hs.pumps_on[i], s.hs.last_pumps_toggle[i],
                                     s.gpio[PUMPS_PINS[i]],
                                     s.loc.app_settings[PumpModeKey[i]],
                                     Float(s.loc.app_settings["pumpOnDuration"]),
                                     Float(s.loc.app_settings["pumpOffDuration"]),
                                     s.loc.monotonic_time,
                                     PUMPS_PINS[i] \in in.gpio_fail)])

\* Lines 275-276, 279-280: the same for the circulation fans.
SetCirculationFans(s, ch) ==
    [s EXCEPT
       !.hs.circulation_fans_on = [i \in DOMAIN CIRCULATION_FANS_PINS |-> ch[i].is_on],
       !.hs.last_circulation_fans_toggle =
           [i \in DOMAIN CIRCULATION_FANS_PINS |-> ch[i].last_toggle],
       !.gpio = [p \in DOMAIN s.gpio |->
                   IF p \in DOMAIN CirculationFanChannel
                     THEN ch[CirculationFanChannel[p]].level
                   ELSE s.gpio[p]]]

\* Lines 266-284.
CirculationFansControl(s, in) ==
    IF s.exc THEN s
    ELSE IF FloatRaises(s.loc.app_settings["circulationFanOnDuration"])
            \/ FloatRaises(s.loc.app_settings["circulationFanOffDuration"])
      THEN Raise(s)
    ELSE SetCirculationFans(s, [i \in DOMAIN CIRCULATION_FANS_PINS |->
                        CycleChannel(s.hs.circulation_fans_on[i],
                                     s.hs.last_circulation_fans_toggle[i],
                                     s.gpio[CIRCULATION_FANS_PINS[i]],
                                     s.loc.app_settings[CirculationFanModeKey[i]],
                                     Float(s.loc.app_settings["circulationFanOnDuration"]),
                                     Float(s.loc.app_settings["circulationFanOffDuration"]),
                                     s.loc.monotonic_time,
                                     CIRCULATION_FANS_PINS[i] \in in.gpio_fail)])

\* sum() of one field of the readings kept.
RECURSIVE SumField(_, _)
SumField(readings, temp_field) ==
    IF readings = <<>> THEN 0
    ELSE (IF temp_field THEN Head(readings).temp ELSE Head(readings).hum)
            + SumField(Tail(readings), temp_field)

\* An average sum/len is kept as the fraction num/den; None has valid = FALSE.
None == [valid |-> FALSE, num |-> 0, den |-> 1]
\* An average taken over every device, the failed ones included.
Average_AllDevices(total, count) ==
    [valid |-> TRUE, num |-> total, den |-> Len(DHT_PINS_BCM)]

Average(total, count) == [valid |-> TRUE, num |-> total, den |-> count]
Greater(avg, threshold) == avg.num > threshold * avg.den
Less(avg, threshold) == avg.num < threshold * avg.den

\* Lines 314-318: the value the exhaust fans in "auto" mode are driven to.
ShouldAutoOn(exhaust_fans_on, temperature_c, humidity, temp_high, temp_low, hum_high, hum_low) ==
    IF Greater(temperature_c, temp_high) \/ Greater(humidity, hum_high) THEN TRUE
    ELSE IF Less(temperature_c, temp_low) /\ Less(humidity, hum_low) THEN FALSE
    ELSE \E i \in DOMAIN exhaust_fans_on : exhaust_fans_on[i]

\* Lines 321-327: what an exhaust fan's mode asks for.
ExhaustShouldOn(mode, should_auto_on) ==
    IF IsStr(mode, "auto") THEN should_auto_on
    ELSE IF IsStr(mode, "on") THEN TRUE
    ELSE FALSE

\* A sensor step that switches every exhaust fan OFF when no device answers.
SensorsAndExhaustFans_NoDataOff(s, in) ==
    IF s.exc THEN s
    ELSE LET app == s.loc.app_settings
             kept == SelectSeq(in.dht, LAMBDA r : r.valid)
         IN  IF kept = <<>>
               THEN [s EXCEPT !.loc.temperature_c = None, !.loc.humidity = None,
                              !.gpio = [p \in DOMAIN s.gpio |->
                                          IF p \in DOMAIN ExhaustFanChannel THEN HIGH
                                          ELSE s.gpio[p]]]
             ELSE
               LET temperature_c == Average(SumField(kept, TRUE), Len(kept))
                   humidity == Average(SumField(kept, FALSE), Len(kept))
                   s1 == [s EXCEPT !.loc.temperature_c = temperature_c,
                                   !.loc.humidity = humidity]
                   should_auto_on ==
                       ShouldAutoOn(s.hs.exhaust_fans_on, temperature_c, humidity,
                                    Float(app["exhaustFanTempHigh"]),
                                    Float(app["exhaustFanTempLow"]),
                                    Float(app["exhaustFanHumidHigh"]),
                                    Float(app["exhaustFanHumidLow"]))
                   g == [p \in DOMAIN s.gpio |->
                           IF p \in DOMAIN ExhaustFanChannel
                             THEN toggle_relay(
                                    s.gpio[p],
                                    ExhaustShouldOn(
                                      app[ExhaustFanModeKey[ExhaustFanChannel[p]]],
                                      should_auto_on),
                                    p \in in.gpio_fail).level
                             ELSE s.gpio[p]]
               IN  [s1 EXCEPT !.gpio = g, !.loc.should_auto_on = should_auto_on]

\* Lines 286-332.
SensorsAndExhaustFans(s, in) ==
    IF s.exc THEN s
    ELSE LET app == s.loc.app_settings
             kept == SelectSeq(in.dht, LAMBDA r : r.valid)
         IN  IF kept = <<>>
               THEN [s EXCEPT !.loc.temperature_c = None, !.loc.humidity = None]
             ELSE
               LET temperature_c == Average(SumField(kept, TRUE), Len(kept))
                   humidity == Average(SumField(kept, FALSE), Len(kept))
                   s1 == [s EXCEPT !.loc.temperature_c = temperature_c,
                                   !.loc.humidity = humidity]
               IN  IF FloatRaises(app["exhaustFanTempHigh"])
                        \/ FloatRaises(app["exhaustFanTempLow"])
                        \/ FloatRaises(app["exhaustFanHumidHigh"])
                        \/ FloatRaises(app["exhaustFanHumidLow"])
                     THEN Raise(s1)
                   ELSE
                     LET should_auto_on ==
                             ShouldAutoOn(s.hs.exhaust_fans_on, temperature_c, humidity,
                                          Float(app["exhaustFanTempHigh"]),
                                          Float(app["exhaustFanTempLow"]),
                                          Float(app["exhaustFanHumidHigh"]),
                                          Float(app["exhaustFanHumidLow"]))
                         g == [p \in DOMAIN s.gpio |->
                                 IF p \in DOMAIN ExhaustFanChannel
                                   THEN toggle_relay(
                                          s.gpio[p],
                                          ExhaustShouldOn(
                                            app[ExhaustFanModeKey[ExhaustFanChannel[p]]],
                                            should_auto_on),
                                          p \in in.gpio_fail).level
                                   ELSE s.gpio[p]]
                     IN  [s1 EXCEPT !.gpio = g, !.loc.should_auto_on = should_auto_on]

\* Lines 335-337: a float pin reads LOW when water is present at it; the
\* water level is OK when every float sensor says so.
WaterLevelsOK(floater_states) ==
    [i \in DOMAIN floater_states |-> floater_states[i] = LOW]

WaterLevelOK_Any(floater_states) ==
    \E i \in DOMAIN floater_states : WaterLevelsOK(floater_states)[i]

WaterLevelOK(floater_states) ==
    \A i \in DOMAIN floater_states : WaterLevelsOK(floater_states)[i]

\* Line 350: the fill has lasted longer than max_fill_time.
FillTimedOut_AtLimit(now, solenoid_start_time, max_fill_time) ==
    now - solenoid_start_time >= max_fill_time

FillTimedOut(now, solenoid_start_time, max_fill_time) ==
    now - solenoid_start_time > max_fill_time

\* Lines 361-367: the decision when no fill is running.  on is the value the
\* solenoid is driven to, reset whether the settings store's waterSystemMode
\* is written back to "auto".
NormalLogic_FillLockedOut(water_error, water_level_ok, water_mode) ==
    IF IsStr(water_mode, "auto")
      THEN [on |-> (~water_level_ok /\ water_error # "reservoir_empty"), reset |-> FALSE]
    ELSE IF IsStr(water_mode, "fill")
      THEN [on |-> water_error # "reservoir_empty", reset |-> FALSE]
    ELSE [on |-> FALSE, reset |-> FALSE]

NormalLogic(water_error, water_level_ok, water_mode) ==
    IF IsStr(water_mode, "auto")
      THEN [on |-> (~water_level_ok /\ water_error # "reservoir_empty"), reset |-> FALSE]
    ELSE IF IsStr(water_mode, "fill")
      THEN [on |-> TRUE, reset |-> TRUE]
    ELSE [on |-> FALSE, reset |-> FALSE]

\* Lines 342-367: the water-safety decision.  error is water_error after the
\* decision; on and reset are as in NormalLogic.
WaterDecision_OverflowLast(hs, overflow_detected, water_level_ok, water_mode, max_fill_time, now) ==
    IF hs.solenoid_on /\ hs.solenoid_start_time # NoTime
      THEN IF FillTimedOut(now, hs.solenoid_start_time, max_fill_time)
             THEN [error |-> IF ~water_level_ok THEN "reservoir_empty" ELSE "timeout",
                   on |-> FALSE, reset |-> FALSE]
             ELSE [error |-> hs.water_error, on |-> TRUE, reset |-> FALSE]
    ELSE IF overflow_detected
      THEN [error |-> "overflow", on |-> FALSE, reset |-> FALSE]
    ELSE [error |-> hs.water_error,
          on |-> NormalLogic(hs.water_error, water_level_ok, water_mode).on,
          reset |-> NormalLogic(hs.water_error, water_level_ok, water_mode).reset]

\* A decision that ends a running fill as soon as the floats report water.
WaterDecision_StopsWhenFull(hs, overflow_detected, water_level_ok, water_mode, max_fill_time, now) ==
    IF overflow_detected
      THEN [error |-> "overflow", on |-> FALSE, reset |-> FALSE]
    ELSE IF hs.solenoid_on /\ hs.solenoid_start_time # NoTime
      THEN IF FillTimedOut(now, hs.solenoid_start_time, max_fill_time)
             THEN [error |-> IF ~water_level_ok THEN "reservoir_empty" ELSE "timeout",
                   on |-> FALSE, reset |-> FALSE]
             ELSE [error |-> hs.water_error, on |-> ~water_level_ok, reset |-> FALSE]
    ELSE [error |-> hs.water_error,
          on |-> NormalLogic(hs.water_error, water_level_ok, water_mode).on,
          reset |-> NormalLogic(hs.water_error, water_level_ok, water_mode).reset]

\* A decision without the fill timeout.
WaterDecision_NoTimeout(hs, overflow_detected, water_level_ok, water_mode, max_fill_time, now) ==
    IF overflow_detected
      THEN [error |-> "overflow", on |-> FALSE, reset |-> FALSE]
    ELSE IF hs.solenoid_on /\ hs.solenoid_start_time # NoTime
      THEN [error |-> hs.water_error, on |-> TRUE, reset |-> FALSE]
    ELSE [error |-> hs.water_error,
          on |-> NormalLogic(hs.water_error, water_level_ok, water_mode).on,
          reset |-> NormalLogic(hs.water_error, water_level_ok, water_mode).reset]

WaterDecision(hs, overflow_detected, water_level_ok, water_mode, max_fill_time, now) ==
    IF overflow_detected
      THEN [error |-> "overflow", on |-> FALSE, reset |-> FALSE]
    ELSE IF hs.solenoid_on /\ hs.solenoid_start_time # NoTime
      THEN IF FillTimedOut(now, hs.solenoid_start_time, max_fill_time)
             THEN [error |-> IF ~water_level_ok THEN "reservoir_empty" ELSE "timeout",
                   on |-> FALSE, reset |-> FALSE]
             ELSE [error |-> hs.water_error, on |-> TRUE, reset |-> FALSE]
    ELSE [error |-> hs.water_error,
          on |-> NormalLogic(hs.water_error, water_level_ok, water_mode).on,
          reset |-> NormalLogic(hs.water_error, water_level_ok, water_mode).reset]

\* Lines 378-385: drive the solenoid and keep hardware_state in step.
UpdateSolenoid_EveryTickOn(hs, level, should_solenoid_be_on, now, fault) ==
    LET was_on == hs.solenoid_on
        r == toggle_relay(level, should_solenoid_be_on, fault)
    IN  [level |-> r.level,
         hs |-> IF r.ret
                  THEN [hs EXCEPT !.solenoid_on = r.ret,
                                  !.solenoid_start_time = now,
                                  !.water_error = NoError]
                ELSE IF ~r.ret /\ was_on
                  THEN [hs EXCEPT !.solenoid_on = r.ret,
                                  !.solenoid_start_time = NoTime]
                ELSE [hs EXCEPT !.solenoid_on = r.ret]]

\* An update that leaves solenoid_start_time in place when the fill ends.
UpdateSolenoid_KeepsStart(hs, level, should_solenoid_be_on, now, fault) ==
    LET was_on == hs.solenoid_on
        r == toggle_relay(level, should_solenoid_be_on, fault)
    IN  [level |-> r.level,
         hs |-> IF r.ret /\ ~was_on
                  THEN [hs EXCEPT !.solenoid_on = r.ret,
                                  !.solenoid_start_time = now,
                                  !.water_error = NoError]
                ELSE [hs EXCEPT !.solenoid_on = r.ret]]

\* An update that also clears water_error while the solenoid stays OFF.
UpdateSolenoid_ClearsWhenIdle(hs, level, should_solenoid_be_on, now, fault) ==
    LET was_on == hs.solenoid_on
        r == toggle_relay(level, should_solenoid_be_on, fault)
    IN  [level |-> r.level,
         hs |-> IF r.ret /\ ~was_on
                  THEN [hs EXCEPT !.solenoid_on = r.ret,
                                  !.solenoid_start_time = now,
                                  !.water_error = NoError]
                ELSE IF ~r.ret /\ was_on
                  THEN [hs EXCEPT !.solenoid_on = r.ret,
                                  !.solenoid_start_time = NoTime]
                ELSE [hs EXCEPT !.solenoid_on = r.ret, !.water_error = NoError]]

UpdateSolenoid(hs, level, should_solenoid_be_on, now, fault) ==
    LET was_on == hs.solenoid_on
        r == toggle_relay(level, should_solenoid_be_on, fault)
    IN  [level |-> r.level,
         hs |-> IF r.ret /\ ~was_on
                  THEN [hs EXCEPT !.solenoid_on = r.ret,
                                  !.solenoid_start_time = now,
                                  !.water_error = NoError]
                ELSE IF ~r.ret /\ was_on
                  THEN [hs EXCEPT !.solenoid_on = r.ret,
                                  !.solenoid_start_time = NoTime]
                ELSE [hs EXCEPT !.solenoid_on = r.ret]]

\* Lines 334-385.
WaterControl(s, in) ==
    IF s.exc THEN s
    ELSE IF Range(FLOAT_SENSORS_PINS) \cap in.gpio_fail # {} THEN Raise(s)
    ELSE
      LET app == s.loc.app_settings
          water_levels_ok == WaterLevelsOK(in.floats)
          water_level_ok == WaterLevelOK(in.floats)
          s1 == [s EXCEPT !.loc.floater_states = in.floats,
                          !.loc.water_levels_ok = water_levels_ok,
                          !.loc.water_level_ok = water_level_ok]
      IN  IF OVERFLOW_SENSOR_PIN \in in.gpio_fail THEN Raise(s1)
          ELSE
            LET overflow_detected == (in.overflow = LOW)
                water_mode == app["waterSystemMode"]
                s2 == [s1 EXCEPT !.loc.overflow_detected = overflow_detected,
                                 !.loc.water_mode = water_mode]
            IN  IF FloatRaises(app["maxFillTime"]) THEN Raise(s2)
                ELSE
                  LET max_fill_time == Float(app["maxFillTime"])
                      now == s.loc.monotonic_time
                      d == WaterDecision(s.hs, overflow_detected, water_level_ok,
                                         water_mode, max_fill_time, now)
                      u == UpdateSolenoid([s.hs EXCEPT !.water_error = d.error],
                                          s.gpio[SOLENOID_RELAY_PIN], d.on, now,
                                          SOLENOID_RELAY_PIN \in in.gpio_fail)
                  IN  [s2 EXCEPT
                         !.loc.max_fill_time = max_fill_time,
                         !.loc.should_solenoid_be_on = d.on,
                         !.loc.was_on = s.hs.solenoid_on,
                         !.settings = IF d.reset /\ "reset" \notin in.db_fail
                                        THEN [s.settings EXCEPT !["waterSystemMode"] = "auto"]
                                        ELSE s.settings,
                         !.loc.db = IF ~d.reset THEN s.loc.db
                                    ELSE IF "reset" \in in.db_fail THEN "open"
                                    ELSE "closed",
                         !.hs = u.hs,
                         !.gpio = [s.gpio EXCEPT ![SOLENOID_RELAY_PIN] = u.level]]

\* Lines 394-399: the row written to sensor_readings and to latest_state.
TelemetryRow(loc) ==
    [temperature |-> loc.temperature_c, humidity |-> loc.humidity,
     waterLevelOK |-> IF loc.water_level_ok THEN 1 ELSE 0,
     floater1 |-> IF loc.water_levels_ok[1] THEN 1 ELSE 0,
     floater2 |-> IF loc.water_levels_ok[2] THEN 1 ELSE 0,
     floater3 |-> IF loc.water_levels_ok[3] THEN 1 ELSE 0]

\* A telemetry step that writes on every iteration with a reading.
LogSensorData_NoThrottle(s, in) ==
    IF s.exc THEN s
    ELSE IF s.loc.temperature_c.valid /\ s.loc.humidity.valid
      THEN IF "log" \notin in.db_fail
             THEN [s EXCEPT !.rows = Append(s.rows, TelemetryRow(s.loc)),
                            !.latest = TelemetryRow(s.loc),
                            !.hs.last_sensor_log_time = s.loc.monotonic_time,
                            !.loc.db = "closed"]
             ELSE [s EXCEPT !.loc.db = "open"]
    ELSE s

\* A telemetry step that counts a failed write as done.
LogSensorData_AdvancesOnFailure(s, in) ==
    IF s.exc THEN s
    ELSE IF s.loc.monotonic_time - s.hs.last_sensor_log_time >= LOG_PERIOD
            /\ s.loc.temperature_c.valid /\ s.loc.humidity.valid
      THEN IF "log" \notin in.db_fail
             THEN [s EXCEPT !.rows = Append(s.rows, TelemetryRow(s.loc)),
                            !.latest = TelemetryRow(s.loc),
                            !.hs.last_sensor_log_time = s.loc.monotonic_time,
                            !.loc.db = "closed"]
             ELSE [s EXCEPT !.hs.last_sensor_log_time = s.loc.monotonic_time,
                            !.loc.db = "open"]
    ELSE s

\* Lines 387-408.  A write that raises (lines 393-401) leaves the try block
\* before db.close() (line 402).
LogSensorData(s, in) ==
    IF s.exc THEN s
    ELSE IF s.loc.monotonic_time - s.hs.last_sensor_log_time >= LOG_PERIOD
            /\ s.loc.temperature_c.valid /\ s.loc.humidity.valid
      THEN IF "log" \notin in.db_fail
             THEN [s EXCEPT !.rows = Append(s.rows, TelemetryRow(s.loc)),
                            !.latest = TelemetryRow(s.loc),
                            !.hs.last_sensor_log_time = s.loc.monotonic_time,
                            !.loc.db = "closed"]
             ELSE [s EXCEPT !.loc.db = "open"]
    ELSE s

\* Lines 201-415: the body of one iteration, each step applied to the state
\* the step before it has produced.
LoopBody(s, in) ==
    CHOOSE s7 \in
      {LogSensorData(s6, in) : s6 \in
        {WaterControl(s5, in) : s5 \in
          {SensorsAndExhaustFans(s4, in) : s4 \in
            {CirculationFansControl(s3, in) : s3 \in
              {PumpsControl(s2, in) : s2 \in
                {LightsControl(s1, in) : s1 \in
                  {LoadSettings(s, in)}}}}}}} : TRUE

-----------------------------------------------------------------------------
(* Bounds of the model                                                     *)

\* Seconds an iteration itself may take on top of its sleep.
MaxJitter == 1
\* The loop is followed until time.monotonic() passes these instants.
MaxClock == 10
MaxClockFans == 4
MaxClockCycle == 12
MaxClockDuration == 8
MaxClockMalformed == 22
MaxClockFault == 22
MaxClockLog == 62
MaxClockLights == 4
MaxClockIdem == 4

-----------------------------------------------------------------------------
(* Initial state: the module's globals after import, the tables after      *)
(* init_db.                                                                *)

\* Lines 158-171.
InitHardwareState ==
    [pumps_on |-> [i \in DOMAIN PUMPS_PINS |-> FALSE],
     last_pumps_toggle |-> [i \in DOMAIN PUMPS_PINS |-> 0],
     lights_on |-> [i \in DOMAIN LIGHTS_PINS |-> FALSE],
     last_lights_toggle |-> [i \in DOMAIN LIGHTS_PINS |-> 0],
     exhaust_fans_on |-> [i \in DOMAIN EXHAUST_FANS_PINS |-> FALSE],
     last_exhaust_fans_toggle |-> [i \in DOMAIN EXHAUST_FANS_PINS |-> 0],
     circulation_fans_on |-> [i \in DOMAIN CIRCULATION_FANS_PINS |-> FALSE],
     last_circulation_fans_toggle |-> [i \in DOMAIN CIRCULATION_FANS_PINS |-> 0],
     solenoid_on |-> FALSE,
     solenoid_start_time |-> NoTime,
     water_error |-> NoError,
     last_sensor_log_time |-> 0 - FIRST_LOG_OFFSET]

\* The loop's locals before the first iteration binds them.
InitLocal ==
    [app_settings |-> [k \in SettingsKeys |-> ParseSetting(default_settings[k])],
     current_time_for_schedule |-> 0,
     monotonic_time |-> NoTime,
     schedule_on |-> FALSE,
     temperature_c |-> None,
     humidity |-> None,
     should_auto_on |-> FALSE,
     floater_states |-> [i \in DOMAIN FLOAT_SENSORS_PINS |-> LOW],
     water_levels_ok |-> [i \in DOMAIN FLOAT_SENSORS_PINS |-> TRUE],
     water_level_ok |-> TRUE,
     overflow_detected |-> FALSE,
     water_mode |-> ParseSetting("auto"),
     max_fill_time |-> 0,
     should_solenoid_be_on |-> FALSE,
     was_on |-> FALSE,
     db |-> "unbound"]

\* Line 112: the row init_db puts in latest_state.
InitLatestState ==
    [temperature |-> Average(0, 1), humidity |-> Average(0, 1), waterLevelOK |-> 0,
     floater1 |-> 0, floater2 |-> 0, floater3 |-> 0]

\* Lines 143-171 and init_db, the settings table holding the rows stored.
InitWith(stored) ==
    /\ settings = stored
    /\ hardware_state = InitHardwareState
    /\ gpio = [p \in relay_pins |-> HIGH]
    /\ sensor_readings = <<>>
    /\ latest_state = InitLatestState
    /\ local = InitLocal
    /\ clock = 0
    /\ pc = "loop"
    /\ shutdown_event = FALSE

-----------------------------------------------------------------------------
(* Actions                                                                 *)

\* An iteration begun without looking at shutdown_event.
Tick_IgnoresShutdown(in) ==
    /\ pc = "loop"
    /\ \E f \in {LoopBody([settings |-> settings, hs |-> hardware_state, gpio |-> gpio,
                           rows |-> sensor_readings, latest |-> latest_state,
                           loc |-> local, now |-> clock, exc |-> FALSE], in)} :
           /\ settings' = f.settings
           /\ hardware_state' = f.hs
           /\ gpio' = f.gpio
           /\ sensor_readings' = f.rows
           /\ latest_state' = f.latest
           /\ local' = f.loc
           /\ pc' = IF f.exc THEN "backoff" ELSE "sleep"
    /\ UNCHANGED <<clock, shutdown_event>>

\* An iteration whose exception leaves run_hardware_loop instead of being
\* caught at line 413.
Tick_Uncaught(in) ==
    /\ pc = "loop"
    /\ ~shutdown_event
    /\ \E f \in {LoopBody([settings |-> settings, hs |-> hardware_state, gpio |-> gpio,
                           rows |-> sensor_readings, latest |-> latest_state,
                           loc |-> local, now |-> clock, exc |-> FALSE], in)} :
           /\ settings' = f.settings
           /\ hardware_state' = f.hs
           /\ gpio' = f.gpio
           /\ sensor_readings' = f.rows
           /\ latest_state' = f.latest
           /\ local' = f.loc
           /\ pc' = IF f.exc THEN "done" ELSE "sleep"
    /\ UNCHANGED <<clock, shutdown_event>>

\* Lines 200-415 up to the sleep: one iteration of run_hardware_loop.
Tick(in) ==
    /\ pc = "loop"
    /\ ~shutdown_event
    /\ \E f \in {LoopBody([settings |-> settings, hs |-> hardware_state, gpio |-> gpio,
                           rows |-> sensor_readings, latest |-> latest_state,
                           loc |-> local, now |-> clock, exc |-> FALSE], in)} :
           /\ settings' = f.settings
           /\ hardware_state' = f.hs
           /\ gpio' = f.gpio
           /\ sensor_readings' = f.rows
           /\ latest_state' = f.latest
           /\ local' = f.loc
           /\ pc' = IF f.exc THEN "backoff" ELSE "sleep"
    /\ UNCHANGED <<clock, shutdown_event>>

\* Lines 411 and 415: time.sleep(2) after an iteration that completed,
\* time.sleep(10) after one that raised.
Sleep(horizon) ==
    /\ pc \in {"sleep", "backoff"}
    /\ \E jitter \in 0..MaxJitter :
         LET d == (IF pc = "sleep" THEN TICK_SLEEP ELSE ERROR_SLEEP) + jitter
         IN  /\ clock + d <= horizon
             /\ clock' = clock + d
    /\ pc' = "loop"
    /\ UNCHANGED <<settings, hardware_state, gpio, sensor_readings, latest_state,
                   local, shutdown_event>>

\* Line 495: the main thread sets shutdown_event on its way out.
Shutdown ==
    /\ ~shutdown_event
    /\ shutdown_event' = TRUE
    /\ UNCHANGED <<settings, hardware_state, gpio, sensor_readings, latest_state,
                   local, clock, pc>>

\* Line 200: the loop test finds shutdown_event set and run_hardware_loop
\* returns.
Return ==
    /\ pc = "loop"
    /\ shutdown_event
    /\ pc' = "done"
    /\ UNCHANGED <<settings, hardware_state, gpio, sensor_readings, latest_state,
                   local, clock, shutdown_event>>

\* Lines 433-450: POST /api/settings with the body {key: value}; value is
\* the text str(value) stores.  UPDATE changes no row for an unknown key.
update_settings(key, value) ==
    /\ settings' = IF key \in DOMAIN settings
                     THEN [settings EXCEPT ![key] = value]
                     ELSE settings
    /\ UNCHANGED <<hardware_state, gpio, sensor_readings, latest_state, local,
                   clock, pc, shutdown_event>>

\* What the sensors read in an iteration.
Reading(temp, hum) == [valid |-> TRUE, temp |-> temp, hum |-> hum]
Failed == [valid |-> FALSE, temp |-> 0, hum |-> 0]
FloatLevels == [DOMAIN FLOAT_SENSORS_PINS -> {LOW, HIGH}]
AllFloatsOK == [i \in DOMAIN FLOAT_SENSORS_PINS |-> LOW]
Noon == 720

-----------------------------------------------------------------------------
(* Spec: the water system.  The float and overflow sensors read anything,  *)
(* the API writes waterSystemMode and maxFillTime; no DHT device answers.  *)

WaterSettings == [default_settings EXCEPT !["maxFillTime"] = "2"]

Init == InitWith(WaterSettings)

WaterTick ==
    \E floats \in FloatLevels, overflow \in {LOW, HIGH} :
        Tick([tod |-> Noon, dht |-> <<Failed, Failed>>, floats |-> floats,
              overflow |-> overflow, gpio_fail |-> {}, db_fail |-> {}])

WaterSleep == Sleep(MaxClock)

WaterApi ==
    \/ \E mode \in {"auto", "fill"} : update_settings("waterSystemMode", mode)
    \/ \E t \in {"2", "4"} : update_settings("maxFillTime", t)

Next == WaterTick \/ WaterSleep \/ WaterApi

Spec == Init /\ [][Next]_vars

-----------------------------------------------------------------------------
(* Properties of the water system                                          *)

\* A step that is one iteration of the loop body.
TickStep == pc = "loop" /\ pc' \in {"sleep", "backoff"}

\* C1  Overflow interlock: an iteration that reads the overflow sensor
\* triggered ends with the solenoid relay OFF and water_error = "overflow",
\* whatever the state before, the mode loaded, the float readings and the
\* time the fill has lasted.
C1_OverflowInterlock ==
    [][(TickStep /\ local'.overflow_detected)
          => /\ gpio'[SOLENOID_RELAY_PIN] = HIGH
             /\ ~hardware_state'.solenoid_on
             /\ hardware_state'.water_error = "overflow"]_vars

\* An iteration has cut a fill short on overflow while "fill" was the mode
\* loaded and a float sensor still read low.
C1_Witness ==
    /\ pc = "sleep"
    /\ local.overflow_detected
    /\ local.was_on
    /\ IsStr(local.water_mode, "fill")
    /\ ~local.water_level_ok
    /\ gpio[SOLENOID_RELAY_PIN] = HIGH
    /\ hardware_state.water_error = "overflow"

\* C2  Fill timeout: with no overflow and the solenoid ON, an iteration at
\* which now - fill_start > maxFillTime turns the solenoid OFF and sets
\* water_error to "reservoir_empty" if a float sensor reads low, else to
\* "timeout"; at now - fill_start = maxFillTime no fault is raised and the
\* solenoid stays ON.
C2_FillTimeout ==
    [][(TickStep /\ ~local'.overflow_detected /\ hardware_state.solenoid_on)
          => LET elapsed == local'.monotonic_time - hardware_state.solenoid_start_time
                 some_low == \E i \in DOMAIN local'.floater_states :
                                 local'.floater_states[i] = HIGH
             IN  /\ elapsed > local'.max_fill_time
                      => /\ gpio'[SOLENOID_RELAY_PIN] = HIGH
                         /\ ~hardware_state'.solenoid_on
                         /\ hardware_state'.water_error =
                              IF some_low THEN "reservoir_empty" ELSE "timeout"
                 /\ elapsed = local'.max_fill_time
                      => /\ gpio'[SOLENOID_RELAY_PIN] = LOW
                         /\ hardware_state'.solenoid_on
                         /\ hardware_state'.water_error = hardware_state.water_error
                         /\ hardware_state'.water_error = NoError]_vars

\* An iteration has ended a fill on timeout with a float sensor still low.
C2_Witness ==
    /\ pc = "sleep"
    /\ ~local.overflow_detected
    /\ local.was_on
    /\ ~local.water_level_ok
    /\ gpio[SOLENOID_RELAY_PIN] = HIGH
    /\ hardware_state.water_error = "reservoir_empty"

\* C3  Dry-reservoir lockout, as claimed: once water_error is
\* "reservoir_empty", an iteration that does not load the mode "fill" leaves
\* water_error at "reservoir_empty" and the solenoid OFF, whatever the
\* sensors read.
C3_LockoutHolds ==
    [][(TickStep /\ hardware_state.water_error = "reservoir_empty"
          /\ ~IsStr(local'.water_mode, "fill"))
          => /\ hardware_state'.water_error = "reservoir_empty"
             /\ ~hardware_state'.solenoid_on
             /\ gpio'[SOLENOID_RELAY_PIN] = HIGH]_vars

\* C4  Manual fill: with no overflow and the solenoid OFF, an iteration that
\* loads the mode "fill" turns the solenoid ON whatever the water level and
\* water_error, sets fill_start to the iteration's time, clears water_error
\* and leaves waterSystemMode = "auto" in the settings store.
C4_ManualFill ==
    [][(TickStep /\ ~local'.overflow_detected /\ ~hardware_state.solenoid_on
          /\ settings["waterSystemMode"] = "fill")
          => /\ gpio'[SOLENOID_RELAY_PIN] = LOW
             /\ hardware_state'.solenoid_on
             /\ hardware_state'.solenoid_start_time = clock
             /\ hardware_state'.water_error = NoError
             /\ settings'["waterSystemMode"] = "auto"]_vars

\* An iteration has started a manual fill although every float sensor read
\* water present, and has written the mode back.
C4_Witness ==
    /\ pc = "sleep"
    /\ ~local.overflow_detected
    /\ ~local.was_on
    /\ IsStr(local.water_mode, "fill")
    /\ local.water_level_ok
    /\ hardware_state.solenoid_on
    /\ hardware_state.solenoid_start_time = local.monotonic_time
    /\ hardware_state.water_error = NoError
    /\ settings["waterSystemMode"] = "auto"

\* C6  Continue filling: with no overflow, the solenoid ON and
\* now - fill_start <= maxFillTime, the solenoid stays ON whatever the floats
\* read and whatever the mode; fill_start and water_error are unchanged.
C6_ContinueFilling ==
    [][(TickStep /\ ~local'.overflow_detected /\ hardware_state.solenoid_on
          /\ local'.monotonic_time - hardware_state.solenoid_start_time
                <= local'.max_fill_time)
          => /\ gpio'[SOLENOID_RELAY_PIN] = LOW
             /\ hardware_state'.solenoid_on
             /\ hardware_state'.solenoid_start_time = hardware_state.solenoid_start_time
             /\ hardware_state'.water_error = hardware_state.water_error]_vars

\* An iteration has kept a fill going although every float sensor read water
\* present.
C6_Witness ==
    /\ pc = "sleep"
    /\ ~local.overflow_detected
    /\ local.was_on
    /\ local.water_level_ok
    /\ hardware_state.solenoid_on
    /\ gpio[SOLENOID_RELAY_PIN] = LOW
    /\ hardware_state.solenoid_start_time < local.monotonic_time

\* C7  Mode-driven start: with no overflow, the solenoid OFF, the mode "auto"
\* and water_error not "reservoir_empty", the solenoid turns ON, with
\* fill_start the iteration's time, exactly when at least one of the float
\* sensors reads low.
C7_ModeDrivenStart ==
    [][(TickStep /\ ~local'.overflow_detected /\ ~hardware_state.solenoid_on
          /\ settings["waterSystemMode"] = "auto"
          /\ hardware_state.water_error # "reservoir_empty")
          => LET some_low == \E i \in DOMAIN local'.floater_states :
                                 local'.floater_states[i] = HIGH
             IN  /\ hardware_state'.solenoid_on <=> some_low
                 /\ (gpio'[SOLENOID_RELAY_PIN] = LOW) <=> some_low
                 /\ some_low => hardware_state'.solenoid_start_time = clock]_vars

\* An iteration in "auto" mode has started a fill with a single float sensor
\* reading low.
C7_Witness ==
    /\ pc = "sleep"
    /\ ~local.overflow_detected
    /\ ~local.was_on
    /\ IsStr(local.water_mode, "auto")
    /\ Cardinality({i \in DOMAIN local.floater_states : local.floater_states[i] = HIGH}) = 1
    /\ hardware_state.solenoid_on
    /\ hardware_state.solenoid_start_time = local.monotonic_time

-----------------------------------------------------------------------------
(* SpecExhaust: the exhaust fans.  The DHT devices answer or fail, the API *)
(* writes the first fan's mode and the temperature thresholds; the water   *)
(* level is OK.                                                            *)

InitExhaust == InitWith(default_settings)

DhtAnswers ==
    {<<Failed, Failed>>, <<Failed, Reading(28, 70)>>, <<Reading(22, 50), Reading(25, 60)>>}
        \cup {<<Reading(temp, hum), Failed>> : temp \in {22, 25, 28}, hum \in {50, 60}}

ExhaustInput(dht) ==
    [tod |-> Noon, dht |-> dht, floats |-> AllFloatsOK, overflow |-> HIGH,
     gpio_fail |-> {}, db_fail |-> {}]

ExhaustTick == \E dht \in DhtAnswers : Tick(ExhaustInput(dht))

ExhaustSleep == Sleep(MaxClockFans)

ExhaustApi ==
    \/ \E mode \in {"auto", "on", "off"} : update_settings("exhaustFanMode1", mode)
    \/ \E high \in {"27.0", "21.0"} : update_settings("exhaustFanTempHigh", high)

NextExhaust == ExhaustTick \/ ExhaustSleep \/ ExhaustApi

SpecExhaust == InitExhaust /\ [][NextExhaust]_vars

-----------------------------------------------------------------------------
(* SpecCycle: the pumps and the circulation fans.  The API writes the      *)
(* first pump's and the first circulation fan's mode; the durations are a  *)
(* few seconds.                                                            *)

CycleSettings ==
    [default_settings EXCEPT !["pumpOnDuration"] = "2", !["pumpOffDuration"] = "4",
                             !["circulationFanOnDuration"] = "4",
                             !["circulationFanOffDuration"] = "2"]

InitCycle == InitWith(CycleSettings)

CycleTick ==
    Tick([tod |-> Noon, dht |-> <<Failed, Failed>>, floats |-> AllFloatsOK,
          overflow |-> HIGH, gpio_fail |-> {}, db_fail |-> {}])

CycleSleep == Sleep(MaxClockCycle)

CycleApi ==
    \/ \E mode \in {"cycle", "on", "off"} : update_settings("pumpMode1", mode)
    \/ \E mode \in {"cycle", "on", "off"} : update_settings("circulationFanMode1", mode)

NextCycle == CycleTick \/ CycleSleep \/ CycleApi

SpecCycle == InitCycle /\ [][NextCycle]_vars

-----------------------------------------------------------------------------
(* Properties of the exhaust fans                                          *)

\* The thresholds and the averaged reading of the iteration just run.
OnRule(loc) ==
    \/ Greater(loc.temperature_c, Float(loc.app_settings["exhaustFanTempHigh"]))
    \/ Greater(loc.humidity, Float(loc.app_settings["exhaustFanHumidHigh"]))

TempLow(loc) == Less(loc.temperature_c, Float(loc.app_settings["exhaustFanTempLow"]))
HumLow(loc) == Less(loc.humidity, Float(loc.app_settings["exhaustFanHumidLow"]))
OffRule(loc) == TempLow(loc) /\ HumLow(loc)

\* An iteration that has an averaged reading, and exhaust fan i in "auto".
AutoFanTick(i) ==
    /\ TickStep
    /\ local'.temperature_c.valid
    /\ local'.humidity.valid
    /\ settings[ExhaustFanModeKey[i]] = "auto"

\* C5  Dead-band hold, as claimed: for an exhaust fan in "auto" mode, an
\* iteration whose averaged reading meets neither the ON rule nor the OFF
\* rule leaves the fan's relay as it was before the iteration.
C5_DeadBandHolds ==
    [][\A i \in DOMAIN EXHAUST_FANS_PINS :
          (AutoFanTick(i) /\ ~OnRule(local') /\ ~OffRule(local'))
             => gpio'[EXHAUST_FANS_PINS[i]] = gpio[EXHAUST_FANS_PINS[i]]]_vars

\* C8  Rule precedence, as claimed: for an exhaust fan in "auto" mode the ON
\* rule drives the fan ON, also when the OFF rule matches too; otherwise the
\* OFF rule (both metrics low) drives it OFF; and a reading with a single low
\* metric does not turn OFF a fan that is ON.
C8_RulePrecedence ==
    [][\A i \in DOMAIN EXHAUST_FANS_PINS :
          AutoFanTick(i)
             => /\ OnRule(local') => gpio'[EXHAUST_FANS_PINS[i]] = LOW
                /\ (~OnRule(local') /\ OffRule(local'))
                      => gpio'[EXHAUST_FANS_PINS[i]] = HIGH
                /\ (~OnRule(local') /\ (TempLow(local') # HumLow(local'))
                      /\ gpio[EXHAUST_FANS_PINS[i]] = LOW)
                      => gpio'[EXHAUST_FANS_PINS[i]] = LOW]_vars

\* The two rules of C8 alone, without its clause on a single low metric.
C8_RulesAlone ==
    [][\A i \in DOMAIN EXHAUST_FANS_PINS :
          AutoFanTick(i)
             => /\ OnRule(local') => gpio'[EXHAUST_FANS_PINS[i]] = LOW
                /\ (~OnRule(local') /\ OffRule(local'))
                      => gpio'[EXHAUST_FANS_PINS[i]] = HIGH]_vars

\* C10  Exhaust-fan mode override, as claimed: every completed iteration
\* leaves an exhaust fan whose mode is "on" with its relay ON and one whose
\* mode is "off" with its relay OFF, whatever the DHT devices returned.
C10_ExhaustOverride ==
    [][(TickStep /\ pc' = "sleep")
          => \A i \in DOMAIN EXHAUST_FANS_PINS :
                /\ settings[ExhaustFanModeKey[i]] = "on"
                      => gpio'[EXHAUST_FANS_PINS[i]] = LOW
                /\ settings[ExhaustFanModeKey[i]] = "off"
                      => gpio'[EXHAUST_FANS_PINS[i]] = HIGH]_vars

-----------------------------------------------------------------------------
(* Properties of the pumps and circulation fans                            *)

\* C9  Pump and circulation-fan mode override: every completed iteration
\* leaves a channel whose mode is "on" with its relay ON and one whose mode
\* is "off" with its relay OFF, whatever its cycle state and the time since
\* its last toggle; in a mode other than "cycle" the channel's is_on flag
\* and last-toggle instant are not changed.
C9_ModeOverride ==
    [][(TickStep /\ pc' = "sleep")
          => /\ \A i \in DOMAIN PUMPS_PINS :
                  /\ settings[PumpModeKey[i]] = "on" => gpio'[PUMPS_PINS[i]] = LOW
                  /\ settings[PumpModeKey[i]] = "off" => gpio'[PUMPS_PINS[i]] = HIGH
                  /\ settings[PumpModeKey[i]] # "cycle"
                        => /\ hardware_state'.pumps_on[i] = hardware_state.pumps_on[i]
                           /\ hardware_state'.last_pumps_toggle[i] =
                                  hardware_state.last_pumps_toggle[i]
             /\ \A i \in DOMAIN CIRCULATION_FANS_PINS :
                  /\ settings[CirculationFanModeKey[i]] = "on"
                        => gpio'[CIRCULATION_FANS_PINS[i]] = LOW
                  /\ settings[CirculationFanModeKey[i]] = "off"
                        => gpio'[CIRCULATION_FANS_PINS[i]] = HIGH
                  /\ settings[CirculationFanModeKey[i]] # "cycle"
                        => /\ hardware_state'.circulation_fans_on[i] =
                                  hardware_state.circulation_fans_on[i]
                           /\ hardware_state'.last_circulation_fans_toggle[i] =
                                  hardware_state.last_circulation_fans_toggle[i]]_vars

\* An iteration has forced the first pump ON in mode "on" and the first
\* circulation fan OFF in mode "off", against their cycle state: the pump's
\* flag says OFF since longer than the off duration, the fan's flag says ON.
C9_Witness ==
    /\ pc = "sleep"
    /\ IsStr(local.app_settings["pumpMode1"], "on")
    /\ gpio[PUMPS_PINS[1]] = LOW
    /\ ~hardware_state.pumps_on[1]
    /\ local.monotonic_time - hardware_state.last_pumps_toggle[1]
          >= Float(local.app_settings["pumpOffDuration"])
    /\ IsStr(local.app_settings["circulationFanMode1"], "off")
    /\ gpio[CIRCULATION_FANS_PINS[1]] = HIGH
    /\ hardware_state.circulation_fans_on[1]
    /\ hardware_state.pumps_on[2]

-----------------------------------------------------------------------------
(* SpecDuration: the duty cycles under live reconfiguration.  Every pump   *)
(* and circulation fan is in "cycle" mode; the API rewrites the four       *)
(* durations between iterations, zero included.                            *)

DurationApi ==
    \/ \E d \in {"0", "2"} : update_settings("pumpOnDuration", d)
    \/ \E d \in {"2", "4"} : update_settings("pumpOffDuration", d)
    \/ \E d \in {"4", "6"} : update_settings("circulationFanOnDuration", d)
    \/ \E d \in {"0", "2"} : update_settings("circulationFanOffDuration", d)

DurationSleep == Sleep(MaxClockDuration)

NextDuration == CycleTick \/ DurationSleep \/ DurationApi

SpecDuration == InitCycle /\ [][NextDuration]_vars

\* The duration stored under a key, as an iteration starting now loads it.
Stored(key) == Float(ParseSetting(settings[key]))

\* What the duty cycle asks of one channel over an iteration at time now:
\* the phase (is_on, last_toggle) becomes (is_on2, last_toggle2) and the pin
\* level2.  The phase flips, with last_toggle := now, exactly when the time
\* since last_toggle has reached the duration of the running phase.
CycleTiming(is_on, last_toggle, is_on2, last_toggle2, level2, on_duration, off_duration, now) ==
    IF now - last_toggle >= (IF is_on THEN on_duration ELSE off_duration)
      THEN /\ is_on2 = ~is_on
           /\ last_toggle2 = now
           /\ level2 = (IF is_on THEN HIGH ELSE LOW)
      ELSE /\ is_on2 = is_on
           /\ last_toggle2 = last_toggle

\* A completed iteration.
CompletedTick == TickStep /\ pc' = "sleep"

\* C11  Duty-cycle timing: for a pump or circulation fan in "cycle" mode, an
\* iteration at time now keeps the phase while now - last_toggle is below the
\* duration of the running phase (on_duration while ON, off_duration while
\* OFF) and flips it, with last_toggle := now and the relay driven to the new
\* phase, as soon as now - last_toggle >= that duration; with a duration of
\* zero the phase flips on the very next iteration.
C11_DutyCycleTiming ==
    [][CompletedTick
          => /\ \A i \in DOMAIN PUMPS_PINS :
                  settings[PumpModeKey[i]] = "cycle"
                     => /\ CycleTiming(hardware_state.pumps_on[i],
                                       hardware_state.last_pumps_toggle[i],
                                       hardware_state'.pumps_on[i],
                                       hardware_state'.last_pumps_toggle[i],
                                       gpio'[PUMPS_PINS[i]],
                                       Stored("pumpOnDuration"),
                                       Stored("pumpOffDuration"), clock)
                        /\ (hardware_state.pumps_on[i] /\ Stored("pumpOnDuration") = 0)
                              => ~hardware_state'.pumps_on[i]
             /\ \A i \in DOMAIN CIRCULATION_FANS_PINS :
                  settings[CirculationFanModeKey[i]] = "cycle"
                     => /\ CycleTiming(hardware_state.circulation_fans_on[i],
                                       hardware_state.last_circulation_fans_toggle[i],
                                       hardware_state'.circulation_fans_on[i],
                                       hardware_state'.last_circulation_fans_toggle[i],
                                       gpio'[CIRCULATION_FANS_PINS[i]],
                                       Stored("circulationFanOnDuration"),
                                       Stored("circulationFanOffDuration"), clock)
                        /\ (~hardware_state.circulation_fans_on[i]
                              /\ Stored("circulationFanOffDuration") = 0)
                              => hardware_state'.circulation_fans_on[i]]_vars

\* The pumps, OFF since the start at T0 = 0 with off_duration = 4, have been
\* turned ON by the iteration at T0 + 4, which set last_toggle = T0 + 4.
C11_Witness ==
    /\ pc = "sleep"
    /\ local.monotonic_time = 4
    /\ Float(local.app_settings["pumpOffDuration"]) = 4
    /\ hardware_state.pumps_on[1]
    /\ hardware_state.last_pumps_toggle[1] = 4
    /\ gpio[PUMPS_PINS[1]] = LOW

\* A circulation fan with off_duration = 0, turned OFF by one iteration, has
\* been turned ON again by the next.
C11_WitnessZero ==
    /\ pc = "sleep"
    /\ Float(local.app_settings["circulationFanOffDuration"]) = 0
    /\ hardware_state.circulation_fans_on[1]
    /\ hardware_state.last_circulation_fans_toggle[1] = local.monotonic_time
    /\ local.monotonic_time >= 6

-----------------------------------------------------------------------------
(* SpecMalformed: settings a user can store that the loop cannot convert.  *)
(* The hardware and the database work; the API stores a text that is no    *)
(* number under a duration, the fill time or a threshold, and a text that  *)
(* is no HH:MM under the lights' on time.                                  *)

InitMalformed == InitWith(default_settings)

MalformedTick ==
    \E overflow \in {LOW, HIGH} :
        Tick([tod |-> Noon, dht |-> <<Reading(25, 60), Failed>>, floats |-> AllFloatsOK,
              overflow |-> overflow, gpio_fail |-> {}, db_fail |-> {}])

MalformedSleep == Sleep(MaxClockMalformed)

MalformedApi ==
    \/ \E v \in {"abc", "900"} : update_settings("pumpOnDuration", v)
    \/ \E v \in {"abc", "600"} : update_settings("maxFillTime", v)
    \/ \E v \in {"6am", "06:00"} : update_settings("lightsOnTime", v)
    \/ \E v \in {"hot", "27.0"} : update_settings("exhaustFanTempHigh", v)

NextMalformed == MalformedTick \/ MalformedSleep \/ MalformedApi

SpecMalformed == InitMalformed /\ [][NextMalformed]_vars

\* C12  Malformed settings tolerated, as claimed: whatever texts the settings
\* store holds, an iteration raises nothing and runs every step: it ends in
\* the normal sleep, having reached the water-safety step (the overflow
\* sensor was read) with max_fill_time the stored number or, when the stored
\* text is no number, the default 600.
C12_MalformedTolerated ==
    [][TickStep
          => /\ pc' = "sleep"
             /\ local'.monotonic_time = clock
             /\ local'.max_fill_time =
                   IF FloatRaises(ParseSetting(settings["maxFillTime"]))
                     THEN Float(ParseSetting(default_settings["maxFillTime"]))
                     ELSE Stored("maxFillTime")
             /\ hardware_state'.water_error = "overflow"
                   \/ hardware_state'.water_error = hardware_state.water_error]_vars

-----------------------------------------------------------------------------
(* SpecFault: every fault an iteration can meet.  GPIO access raises on a  *)
(* relay pin or on a float sensor pin, the database raises on the settings *)
(* load or on the telemetry write, a DHT read fails, maxFillTime holds a   *)
(* text that is no number; the main thread may set shutdown_event.         *)

InitFault == InitWith(default_settings)

FaultTick ==
    \E dht \in {<<Failed, Failed>>, <<Reading(25, 60), Failed>>},
       gpio_fail \in {{}, {PUMPS_PINS[1]}, {FLOAT_SENSORS_PINS[1]}},
       db_fail \in {{}, {"load"}, {"log"}} :
        Tick([tod |-> Noon, dht |-> dht, floats |-> AllFloatsOK, overflow |-> HIGH,
              gpio_fail |-> gpio_fail, db_fail |-> db_fail])

FaultSleep == Sleep(MaxClockFault)

FaultApi == \E v \in {"abc", "600"} : update_settings("maxFillTime", v)

NextFault == FaultTick \/ FaultSleep \/ FaultApi \/ Shutdown \/ Return

\* time.sleep returns: a sleeping loop thread goes on.
SpecFault == InitFault /\ [][NextFault]_vars /\ WF_vars(FaultSleep)

\* C13  The loop ends only on shutdown: run_hardware_loop has returned only
\* if shutdown_event is set, and it returns from the loop test only; an
\* iteration that raised is followed by the error delay, of ERROR_SLEEP
\* seconds and at most the time a step takes more, and by nothing else; and
\* after that delay the loop is back at its test for another iteration.
C13_NeverTerminates ==
    /\ [](pc = "done" => shutdown_event)
    /\ [][pc' = "done" => pc \in {"loop", "done"}]_vars
    /\ [][(pc = "backoff" /\ pc' # pc)
             => /\ pc' = "loop"
                /\ clock' - clock >= ERROR_SLEEP
                /\ clock' - clock <= ERROR_SLEEP + MaxJitter]_vars
    /\ (pc = "backoff" /\ clock + ERROR_SLEEP <= MaxClockFault) ~> (pc = "loop")

\* An iteration has raised, the error delay has passed and the loop, not
\* shut down, is at its test again.
C13_Witness ==
    /\ pc = "loop"
    /\ ~shutdown_event
    /\ local.monotonic_time # NoTime
    /\ clock - local.monotonic_time >= ERROR_SLEEP

-----------------------------------------------------------------------------
(* Properties of the sensor aggregation                                    *)

\* SpecSensors: the DHT devices answer or fail; the API switches the second
\* exhaust fan between "auto" and "off".
SensorsApi == \E mode \in {"auto", "off"} : update_settings("exhaustFanMode2", mode)

NextSensors == ExhaustTick \/ ExhaustSleep \/ SensorsApi

SpecSensors == InitExhaust /\ [][NextSensors]_vars

\* The devices whose read returned both values without raising, and the sum
\* of one field over them.
ValidDevices(dht) == {i \in DOMAIN dht : dht[i].valid}

SumValid(dht, temp_field) ==
    LET partial[i \in 0..Len(dht)] ==
            IF i = 0 THEN 0
            ELSE partial[i - 1]
                   + (IF ~dht[i].valid THEN 0
                      ELSE IF temp_field THEN dht[i].temp ELSE dht[i].hum)
    IN  partial[Len(dht)]

\* avg is the mean total / count.
IsMean(avg, total, count) == avg.valid /\ avg.num * count = total * avg.den

\* C14  Sensor aggregation: whatever each DHT device returns in an iteration,
\* the aggregated temperature and humidity are the arithmetic means over
\* exactly the devices that returned both values without raising, the devices
\* after a failed one included; when no device did, both are None.
C14_SensorAggregation ==
    [][\A dht \in DhtAnswers :
          (TickStep /\ Tick(ExhaustInput(dht)))
             => IF ValidDevices(dht) = {}
                  THEN local'.temperature_c = None /\ local'.humidity = None
                  ELSE /\ IsMean(local'.temperature_c, SumValid(dht, TRUE),
                                 Cardinality(ValidDevices(dht)))
                       /\ IsMean(local'.humidity, SumValid(dht, FALSE),
                                 Cardinality(ValidDevices(dht)))]_vars

\* The first device failed and the second returned (28, 70): the iteration
\* has aggregated (28, 70).
C14_Witness ==
    /\ pc = "sleep"
    /\ local.temperature_c = Average(28, 1)
    /\ local.humidity = Average(70, 1)

\* Both devices answered, (22, 50) and (25, 60): the aggregate is (23.5, 55).
C14_WitnessBoth ==
    /\ pc = "sleep"
    /\ local.temperature_c = Average(47, 2)
    /\ local.humidity = Average(110, 2)

-----------------------------------------------------------------------------
(* SpecNoData: iterations with and without sensor data.  The first DHT     *)
(* device answers (28, 70) or fails, the second fails; the first float     *)
(* sensor and the overflow sensor read anything; the telemetry write       *)
(* succeeds or raises.                                                     *)

FirstFloatLow == [i \in DOMAIN FLOAT_SENSORS_PINS |-> IF i = 1 THEN HIGH ELSE LOW]

NoDataInputs ==
    [tod : {Noon},
     dht : {<<Failed, Failed>>, <<Reading(28, 70), Failed>>},
     floats : {AllFloatsOK, FirstFloatLow},
     overflow : {LOW, HIGH},
     gpio_fail : {{}},
     db_fail : {{}, {"log"}}]

NoDataTick == \E in \in NoDataInputs : Tick(in)

NextNoData == NoDataTick \/ ExhaustSleep \/ SensorsApi

SpecNoData == InitExhaust /\ [][NextNoData]_vars

\* C15  No-data iteration: an iteration in which every DHT read failed
\* completes normally (no exception, the 2 s sleep follows); it leaves the
\* relay of every exhaust fan in "auto" mode as it was, writes no telemetry
\* row, leaves the latest row and last_sensor_log_time as they were, and
\* still runs the water-safety step on what the float and overflow sensors
\* read: overflow forces the solenoid OFF with water_error = "overflow", and
\* without overflow a low float starts the fill.
C15_NoDataTick ==
    [][\A in \in NoDataInputs :
          (TickStep /\ ValidDevices(in.dht) = {} /\ Tick(in))
             => /\ pc' = "sleep"
                /\ local'.temperature_c = None /\ local'.humidity = None
                /\ \A i \in DOMAIN EXHAUST_FANS_PINS :
                      settings[ExhaustFanModeKey[i]] = "auto"
                         => gpio'[EXHAUST_FANS_PINS[i]] = gpio[EXHAUST_FANS_PINS[i]]
                /\ sensor_readings' = sensor_readings
                /\ latest_state' = latest_state
                /\ hardware_state'.last_sensor_log_time
                      = hardware_state.last_sensor_log_time
                /\ local'.floater_states = in.floats
                /\ in.overflow = LOW
                      => /\ gpio'[SOLENOID_RELAY_PIN] = HIGH
                         /\ hardware_state'.water_error = "overflow"
                /\ (in.overflow = HIGH /\ in.floats = FirstFloatLow)
                      => /\ gpio'[SOLENOID_RELAY_PIN] = LOW
                         /\ hardware_state'.solenoid_on]_vars

\* An iteration without sensor data, at which a telemetry write was due,
\* has left the first exhaust fan ON and the tables empty, and has started a
\* fill.
C15_Witness ==
    /\ pc = "sleep"
    /\ local.temperature_c = None
    /\ IsStr(local.app_settings["exhaustFanMode1"], "auto")
    /\ gpio[EXHAUST_FANS_PINS[1]] = LOW
    /\ sensor_readings = <<>>
    /\ local.monotonic_time - hardware_state.last_sensor_log_time >= LOG_PERIOD
    /\ ~local.water_level_ok
    /\ hardware_state.solenoid_on
    /\ hardware_state.solenoid_start_time = local.monotonic_time

-----------------------------------------------------------------------------
(* SpecLog: the telemetry over more than one period.  The first DHT device *)
(* answers (28, 70) or fails, the second fails; the telemetry write        *)
(* succeeds or raises.                                                     *)

LogInputs ==
    [tod : {Noon},
     dht : {<<Failed, Failed>>, <<Reading(28, 70), Failed>>},
     floats : {AllFloatsOK},
     overflow : {HIGH},
     gpio_fail : {{}},
     db_fail : {{}, {"log"}}]

LogTick == \E in \in LogInputs : Tick(in)

LogSleep == Sleep(MaxClockLog)

NextLog == LogTick \/ LogSleep

SpecLog == InitExhaust /\ [][NextLog]_vars

\* A telemetry write is due at the iteration being run, and the iteration
\* has an aggregated reading.
LogDue == clock - hardware_state.last_sensor_log_time >= LOG_PERIOD
HasReading == local'.temperature_c.valid /\ local'.humidity.valid

\* C16  Telemetry throttle: an iteration writes telemetry exactly when
\* now - last_sensor_log_time >= 60, its aggregated reading is not None and
\* the write does not raise.  A write appends one row to the history,
\* makes the latest row equal to it and sets last_sensor_log_time to the
\* iteration's time; an iteration that does not write changes none of the
\* three.  So the k-th write is at least 60 s after the one before it.
C16_TelemetryThrottle ==
    /\ [][CompletedTick
            => /\ sensor_readings' # sensor_readings
                  => /\ LogDue /\ HasReading
                     /\ sensor_readings' = Append(sensor_readings, TelemetryRow(local'))
                     /\ latest_state' = TelemetryRow(local')
                     /\ hardware_state'.last_sensor_log_time = clock
               /\ sensor_readings' = sensor_readings
                  => /\ latest_state' = latest_state
                     /\ hardware_state'.last_sensor_log_time
                           = hardware_state.last_sensor_log_time
                     /\ (LogDue /\ HasReading)
                           => \A in \in LogInputs : Tick(in) => "log" \in in.db_fail]_vars
    /\ [](sensor_readings # <<>>
            => hardware_state.last_sensor_log_time
                  >= LOG_PERIOD * (Len(sensor_readings) - 1))

\* A second row has just been written, 60 s or more after the first.
C16_Witness ==
    /\ pc = "sleep"
    /\ Len(sensor_readings) = 2
    /\ latest_state = sensor_readings[2]
    /\ hardware_state.last_sensor_log_time = local.monotonic_time
    /\ local.monotonic_time >= LOG_PERIOD

\* C17  Telemetry persistence failure: when the write of an iteration
\* raises, last_sensor_log_time, the history and the latest row stay as they
\* were, so that the write is still due at the next iteration, and the
\* iteration ends with the normal 2 s sleep, not with the error backoff.
C17_PersistenceFailure ==
    [][\A in \in LogInputs :
          (TickStep /\ LogDue /\ HasReading /\ "log" \in in.db_fail /\ Tick(in))
             => /\ hardware_state'.last_sensor_log_time
                      = hardware_state.last_sensor_log_time
                /\ sensor_readings' = sensor_readings
                /\ latest_state' = latest_state
                /\ pc' = "sleep"
                /\ local'.monotonic_time + TICK_SLEEP
                      - hardware_state'.last_sensor_log_time >= LOG_PERIOD]_vars

\* A write was due at an iteration that had a reading, and nothing has been
\* written: the write raised, and the loop is in its normal sleep.
C17_Witness ==
    /\ pc = "sleep"
    /\ local.temperature_c.valid
    /\ local.humidity.valid
    /\ local.monotonic_time - hardware_state.last_sensor_log_time >= LOG_PERIOD
    /\ Len(sensor_readings) = 1
    /\ latest_state = sensor_readings[1]

-----------------------------------------------------------------------------
(* SpecLights: the light schedule.  An iteration falls at any of a few     *)
(* times of day, the bounds of the windows among them; the API rewrites    *)
(* the on and off times (same-day, overnight and empty windows) and the    *)
(* first light's mode.                                                     *)

\* 00:00, 05:00, 05:59, 06:00, 07:59, 08:00, 12:00, 19:59, 20:00, 23:59
TimesOfDay == {0, 300, 359, 360, 479, 480, 720, 1199, 1200, 1439}

LightsTick ==
    \E tod \in TimesOfDay :
        Tick([tod |-> tod, dht |-> <<Failed, Failed>>, floats |-> AllFloatsOK,
              overflow |-> HIGH, gpio_fail |-> {}, db_fail |-> {}])

LightsSleep == Sleep(MaxClockLights)

LightsApi ==
    \/ \E on \in {"06:00", "08:00", "20:00"} : update_settings("lightsOnTime", on)
    \/ \E off \in {"06:00", "08:00", "22:00"} : update_settings("lightsOffTime", off)
    \/ \E mode \in {"schedule", "on", "off"} : update_settings("lightsMode1", mode)

NextLights == LightsTick \/ LightsSleep \/ LightsApi

SpecLights == InitExhaust /\ [][NextLights]_vars

\* The schedule as claimed, its three cases apart.
ClaimedSchedule(now, on, off) ==
    IF on < off THEN on <= now /\ now < off
    ELSE IF on > off THEN now >= on \/ now < off
    ELSE FALSE

\* C18  Light schedule: with on and off the stored times and now the time of
\* day of the iteration, the schedule is ON exactly when on <= now < off if
\* on < off, exactly when now >= on or now < off if on > off, and never if
\* on = off; after the iteration the relay of every light in "schedule" mode
\* is ON exactly when the schedule is.
C18_LightSchedule ==
    [][CompletedTick
          => LET expected ==
                     ClaimedSchedule(local'.current_time_for_schedule,
                                     TimeText[settings["lightsOnTime"]],
                                     TimeText[settings["lightsOffTime"]])
             IN  /\ local'.schedule_on = expected
                 /\ \A i \in DOMAIN LIGHTS_PINS :
                       settings[LightsModeKey[i]] = "schedule"
                          => (gpio'[LIGHTS_PINS[i]] = LOW) <=> expected]_vars

\* With the overnight window 20:00-08:00, an iteration at 05:00 has the
\* lights in "schedule" mode ON.
C18_Witness ==
    /\ pc = "sleep"
    /\ Time(local.app_settings["lightsOnTime"]) = 1200
    /\ Time(local.app_settings["lightsOffTime"]) = 480
    /\ local.current_time_for_schedule = 300
    /\ local.schedule_on
    /\ IsStr(local.app_settings["lightsMode2"], "schedule")
    /\ gpio[LIGHTS_PINS[2]] = LOW

-----------------------------------------------------------------------------
(* SpecIdem: the cycle engine run again with no time elapsed.  The state   *)
(* is any the pumps and circulation fans can be in at an instant up to     *)
(* MaxClockIdem: all ON or all OFF since the start, under any of a few     *)
(* stored durations, zero included.  Iterations follow one another at that *)
(* one instant; the first DHT device answers (28, 70) or fails.            *)

IdemSettings ==
    {[CycleSettings EXCEPT !["pumpOnDuration"] = pump_on,
                           !["pumpOffDuration"] = pump_off,
                           !["circulationFanOffDuration"] = circ_off] :
        pump_on \in {"0", "2"}, pump_off \in {"0", "4"}, circ_off \in {"0", "2"}}

InitIdem ==
    \E stored \in IdemSettings, pumps \in BOOLEAN, fans \in BOOLEAN, now \in 1..MaxClockIdem :
        /\ settings = stored
        /\ hardware_state =
              [InitHardwareState EXCEPT
                 !.pumps_on = [i \in DOMAIN PUMPS_PINS |-> pumps],
                 !.circulation_fans_on = [i \in DOMAIN CIRCULATION_FANS_PINS |-> fans]]
        /\ gpio = [p \in relay_pins |->
                     IF (p \in Range(PUMPS_PINS) /\ pumps)
                           \/ (p \in Range(CIRCULATION_FANS_PINS) /\ fans)
                       THEN LOW ELSE HIGH]
        /\ sensor_readings = <<>>
        /\ latest_state = InitLatestState
        /\ local = InitLocal
        /\ clock = now
        /\ pc = "loop"
        /\ shutdown_event = FALSE

IdemTick ==
    \E dht \in {<<Failed, Failed>>, <<Reading(28, 70), Failed>>} :
        Tick([tod |-> Noon, dht |-> dht, floats |-> AllFloatsOK, overflow |-> HIGH,
              gpio_fail |-> {}, db_fail |-> {}])

\* The next iteration reads from time.monotonic() the value the last one
\* read: the second iteration the claim supposes, with no time elapsed.  (The
\* loop's own sleep always lets time pass.)
SameInstant ==
    /\ pc = "sleep"
    /\ pc' = "loop"
    /\ UNCHANGED <<settings, hardware_state, gpio, sensor_readings, latest_state,
                   local, clock, shutdown_event>>

NextIdem == IdemTick \/ SameInstant

SpecIdem == InitIdem /\ [][NextIdem]_vars

\* An iteration run at the instant of the one before it, under the settings
\* that one loaded.
SecondTick ==
    /\ CompletedTick
    /\ local.monotonic_time = clock
    /\ \A k \in SettingsKeys : ParseSetting(settings[k]) = local.app_settings[k]

\* The cycle state and the relay of every pump and circulation fan in
\* "cycle" mode are left as they were.
CycleStateUnchanged ==
    /\ \A i \in DOMAIN PUMPS_PINS :
          settings[PumpModeKey[i]] = "cycle"
             => /\ hardware_state'.pumps_on[i] = hardware_state.pumps_on[i]
                /\ hardware_state'.last_pumps_toggle[i] = hardware_state.last_pumps_toggle[i]
                /\ gpio'[PUMPS_PINS[i]] = gpio[PUMPS_PINS[i]]
    /\ \A i \in DOMAIN CIRCULATION_FANS_PINS :
          settings[CirculationFanModeKey[i]] = "cycle"
             => /\ hardware_state'.circulation_fans_on[i] = hardware_state.circulation_fans_on[i]
                /\ hardware_state'.last_circulation_fans_toggle[i]
                      = hardware_state.last_circulation_fans_toggle[i]
                /\ gpio'[CIRCULATION_FANS_PINS[i]] = gpio[CIRCULATION_FANS_PINS[i]]

\* C19  Cycle-engine idempotence, as claimed: a second iteration at the
\* monotonic time of the one before it leaves is_on, last_toggle and the
\* relay of every channel in "cycle" mode unchanged, whatever the state and
\* the durations stored.
C19_Idempotent ==
    [][SecondTick => CycleStateUnchanged]_vars

\* C19, amended: the same, for stored on and off durations that are all
\* greater than zero.
C19_IdempotentPositive ==
    [][(SecondTick
          /\ Stored("pumpOnDuration") > 0 /\ Stored("pumpOffDuration") > 0
          /\ Stored("circulationFanOnDuration") > 0
          /\ Stored("circulationFanOffDuration") > 0)
          => CycleStateUnchanged]_vars

\* Iterations have followed one another at one instant under positive
\* durations: one with a reading switched the exhaust fan ON, the last had
\* none; the pumps, OFF since the start, were due and flipped ON at this
\* instant, and have been left ON with last_toggle at this instant.
C19_Witness ==
    /\ pc = "sleep"
    /\ local.temperature_c = None
    /\ gpio[EXHAUST_FANS_PINS[1]] = LOW
    /\ Float(local.app_settings["pumpOnDuration"]) > 0
    /\ Float(local.app_settings["pumpOffDuration"]) > 0
    /\ Float(local.app_settings["circulationFanOffDuration"]) > 0
    /\ hardware_state.pumps_on[1]
    /\ gpio[PUMPS_PINS[1]] = LOW
    /\ hardware_state.last_pumps_toggle[1] = clock

-----------------------------------------------------------------------------
(* Live reconfiguration of the durations (under SpecDuration)              *)

\* The value stored under key is not the one the last iteration loaded.
Reconfigured(key) == ParseSetting(settings[key]) # local.app_settings[key]

\* Over an iteration at time now the phase has flipped exactly when the time
\* since last_toggle has reached duration, and last_toggle has moved only
\* with a flip.
FlipsIff(is_on, last_toggle, is_on2, last_toggle2, duration, now) ==
    /\ (is_on2 # is_on) <=> (now - last_toggle >= duration)
    /\ last_toggle2 = (IF is_on2 # is_on THEN now ELSE last_toggle)

\* C20  Live duration reconfiguration: a write of the settings store changes
\* no channel's is_on, last_toggle or relay; and the first iteration after a
\* duration was rewritten compares the time since the unchanged last_toggle
\* with the new duration of the running phase: the phase flips at that
\* iteration exactly when now - last_toggle >= the new duration.
C20_LiveReconfiguration ==
    /\ [][settings' # settings /\ ~TickStep
            => hardware_state' = hardware_state /\ gpio' = gpio]_vars
    /\ [][(CompletedTick /\ (Reconfigured("pumpOnDuration")
                                \/ Reconfigured("pumpOffDuration")))
            => \A i \in DOMAIN PUMPS_PINS :
                  settings[PumpModeKey[i]] = "cycle"
                     => FlipsIff(hardware_state.pumps_on[i],
                                 hardware_state.last_pumps_toggle[i],
                                 hardware_state'.pumps_on[i],
                                 hardware_state'.last_pumps_toggle[i],
                                 IF hardware_state.pumps_on[i]
                                   THEN Stored("pumpOnDuration")
                                   ELSE Stored("pumpOffDuration"),
                                 clock)]_vars
    /\ [][(CompletedTick /\ (Reconfigured("circulationFanOnDuration")
                                \/ Reconfigured("circulationFanOffDuration")))
            => \A i \in DOMAIN CIRCULATION_FANS_PINS :
                  settings[CirculationFanModeKey[i]] = "cycle"
                     => FlipsIff(hardware_state.circulation_fans_on[i],
                                 hardware_state.last_circulation_fans_toggle[i],
                                 hardware_state'.circulation_fans_on[i],
                                 hardware_state'.last_circulation_fans_toggle[i],
                                 IF hardware_state.circulation_fans_on[i]
                                   THEN Stored("circulationFanOnDuration")
                                   ELSE Stored("circulationFanOffDuration"),
                                 clock)]_vars

\* pumpOffDuration, 4 at the start, was rewritten to 2: the pumps, OFF since
\* the start at 0, have been turned ON by an iteration before time 4, the
\* first one at which 2 s had passed since last_toggle = 0.
C20_Witness ==
    /\ pc = "sleep"
    /\ Float(local.app_settings["pumpOffDuration"]) = 2
    /\ local.monotonic_time < 4
    /\ hardware_state.pumps_on[1]
    /\ hardware_state.last_pumps_toggle[1] = local.monotonic_time

-----------------------------------------------------------------------------
(* SpecShutdown: SpecFault with the loop thread going on whenever it can:  *)
(* a sleep returns, and the loop test that finds shutdown_event set leaves *)
(* the loop.                                                               *)

SpecShutdown ==
    InitFault /\ [][NextFault]_vars /\ WF_vars(FaultSleep) /\ WF_vars(Return)

-----------------------------------------------------------------------------
(* SpecRelayFault: the water system with relay writes that can fail.  GPIO *)
(* access to the solenoid's pin or to the first pump's pin raises in some  *)
(* iterations; the first pump is in manual "on", so that its relay is      *)
(* written on every iteration.                                             *)

RelayFaultSettings == [WaterSettings EXCEPT !["pumpMode1"] = "on"]

InitRelayFault == InitWith(RelayFaultSettings)

RelayFaultInputs ==
    [tod : {Noon},
     dht : {<<Failed, Failed>>},
     floats : {AllFloatsOK, FirstFloatLow},
     overflow : {LOW, HIGH},
     gpio_fail : {{}, {SOLENOID_RELAY_PIN}, {PUMPS_PINS[1]}},
     db_fail : {{}}]

RelayFaultTick == \E in \in RelayFaultInputs : Tick(in)

RelayFaultSleep == Sleep(MaxClock)

RelayFaultApi == \E mode \in {"auto", "fill"} : update_settings("waterSystemMode", mode)

NextRelayFault == RelayFaultTick \/ RelayFaultSleep \/ RelayFaultApi

SpecRelayFault == InitRelayFault /\ [][NextRelayFault]_vars

\* C22  Water-state invariant: between iterations, and so at every tick
\* boundary, solenoid_start_time holds an instant if and only if solenoid_on
\* is true, relay writes failing or not.
C22_FillStartIffOn ==
    hardware_state.solenoid_on <=> hardware_state.solenoid_start_time # NoTime

\* An iteration has ended a fill: the solenoid was ON when the iteration
\* began, and is recorded OFF with no start instant.
C22_Witness ==
    /\ pc = "sleep"
    /\ local.was_on
    /\ ~hardware_state.solenoid_on
    /\ hardware_state.solenoid_start_time = NoTime

\* The iteration turns the solenoid from OFF to ON.
OffToOnEdge == ~hardware_state.solenoid_on /\ hardware_state'.solenoid_on

\* C23  water_error is cleared exactly on the OFF->ON edge of the solenoid:
\* an iteration with the edge ends with water_error = None, and an iteration
\* without it never resets water_error to None: an error it found stays, an
\* overflow it detects is recorded, and the fill it ends leaves its fault.
C23_ErrorClearedOnEdge ==
    /\ [][(TickStep /\ OffToOnEdge) => hardware_state'.water_error = NoError]_vars
    /\ [][(TickStep /\ ~OffToOnEdge /\ hardware_state.water_error # NoError)
             => hardware_state'.water_error # NoError]_vars
    /\ [][(CompletedTick /\ ~OffToOnEdge /\ local'.overflow_detected)
             => hardware_state'.water_error = "overflow"]_vars

\* An iteration that began and ended with the solenoid OFF has kept the
\* fault an earlier fill ended with.
C23_Witness ==
    /\ pc = "sleep"
    /\ ~local.was_on
    /\ ~hardware_state.solenoid_on
    /\ hardware_state.water_error = "timeout"

\* A fill has begun in an iteration that found the overflow sensor clear,
\* and water_error is None.
C23_WitnessEdge ==
    /\ pc = "sleep"
    /\ ~local.was_on
    /\ hardware_state.solenoid_on
    /\ hardware_state.water_error = NoError
    /\ clock > TICK_SLEEP + TICK_SLEEP

\* C25  Relay write failure: an iteration in which GPIO access to a relay
\* pin raises completes without an exception, every step after the failing
\* write included; the pin is left as it was; and when the pin is the
\* solenoid's, solenoid_on is recorded False (the value toggle_relay
\* returns) and solenoid_start_time is cleared.
C25_RelayWriteFailure ==
    [][\A in \in RelayFaultInputs :
          (TickStep /\ in.gpio_fail # {} /\ Tick(in))
             => /\ pc' = "sleep"
                /\ \A pin \in in.gpio_fail : gpio'[pin] = gpio[pin]
                /\ local'.monotonic_time = clock
                /\ local'.floater_states = in.floats
                /\ local'.was_on = hardware_state.solenoid_on
                /\ (SOLENOID_RELAY_PIN \in in.gpio_fail
                      => /\ ~hardware_state'.solenoid_on
                         /\ hardware_state'.solenoid_start_time = NoTime)]_vars

\* A running fill met a failing solenoid write while the decision was to
\* keep filling: the fill is recorded ended, the relay is still energised.
C25_Witness ==
    /\ pc = "sleep"
    /\ local.was_on
    /\ local.should_solenoid_be_on
    /\ ~hardware_state.solenoid_on
    /\ hardware_state.solenoid_start_time = NoTime
    /\ gpio[SOLENOID_RELAY_PIN] = LOW

-----------------------------------------------------------------------------
(* Ends of fills, under Spec (relay writes succeed).                       *)

\* C29  Every fill ends in a recorded fault: an iteration that turns the
\* solenoid from ON to OFF ends with water_error "overflow", "timeout" or
\* "reservoir_empty"; and a running fill that meets neither an overflow nor
\* the timeout goes on, whatever the floats report.
C29_FillEndsInFault ==
    /\ [][(TickStep /\ hardware_state.solenoid_on /\ ~hardware_state'.solenoid_on)
             => hardware_state'.water_error \in {"overflow", "timeout", "reservoir_empty"}]_vars
    /\ [][(TickStep /\ hardware_state.solenoid_on /\ ~local'.overflow_detected
              /\ ~FillTimedOut(clock, hardware_state.solenoid_start_time,
                               local'.max_fill_time))
             => hardware_state'.solenoid_on]_vars

\* A fill that the floats saw complete was ended by the timeout.
C29_Witness ==
    /\ pc = "sleep"
    /\ local.was_on
    /\ ~hardware_state.solenoid_on
    /\ local.water_level_ok
    /\ hardware_state.water_error = "timeout"

-----------------------------------------------------------------------------
(* SpecFill: the water system with maxFillTime constant, time advancing    *)
(* and the loop thread running: the sleep returns and the next iteration   *)
(* is run.                                                                 *)

FillTick == WaterTick

FillSleep == Sleep(MaxClock)

FillApi == \E mode \in {"auto", "fill"} : update_settings("waterSystemMode", mode)

NextFill == FillTick \/ FillSleep \/ FillApi

SpecFill ==
    Init /\ [][NextFill]_vars /\ WF_vars(FillSleep) /\ WF_vars(FillTick)

\* C30  Every fill eventually ends: with maxFillTime constant, the solenoid
\* is OFF at the end of any iteration that starts later than
\* solenoid_start_time + maxFillTime, and a solenoid that is ON is
\* eventually OFF (within the horizon: the next iteration past the limit
\* starts no later than one sleep after it).
C30_FillEventuallyEnds ==
    /\ [][(TickStep /\ hardware_state.solenoid_on
              /\ clock > hardware_state.solenoid_start_time + Stored("maxFillTime"))
             => /\ ~hardware_state'.solenoid_on
                /\ gpio'[SOLENOID_RELAY_PIN] = HIGH]_vars
    /\ (/\ hardware_state.solenoid_on
        /\ hardware_state.solenoid_start_time + Stored("maxFillTime")
              + TICK_SLEEP + MaxJitter <= MaxClock)
          ~> ~hardware_state.solenoid_on

\* A fill was ended by the timeout alone: no overflow, and the floats still
\* reporting low water.
C30_Witness ==
    /\ pc = "sleep"
    /\ local.was_on
    /\ ~hardware_state.solenoid_on
    /\ ~local.overflow_detected
    /\ hardware_state.water_error = "reservoir_empty"
    /\ gpio[SOLENOID_RELAY_PIN] = HIGH

-----------------------------------------------------------------------------
(* SpecCycleFault: the cycling channels with mode changes, duration        *)
(* changes and relay writes that can fail on the first pump's pin.         *)

CycleFaultTick ==
    \E gpio_fail \in {{}, {PUMPS_PINS[1]}} :
        Tick([tod |-> Noon, dht |-> <<Failed, Failed>>, floats |-> AllFloatsOK,
              overflow |-> HIGH, gpio_fail |-> gpio_fail, db_fail |-> {}])

CycleFaultSleep == Sleep(MaxClockDuration)

CycleFaultApi ==
    \/ \E mode \in {"cycle", "on", "off"} : update_settings("pumpMode1", mode)
    \/ \E d \in {"2", "4"} : update_settings("pumpOffDuration", d)

NextCycleFault == CycleFaultTick \/ CycleFaultSleep \/ CycleFaultApi

SpecCycleFault == InitCycle /\ [][NextCycleFault]_vars

\* last_toggle is assigned in this iteration exactly when is_on changes.
AssignedIffChanged(is_on, is_on_after, last_toggle, last_toggle_after) ==
    /\ is_on_after # is_on => last_toggle_after = clock
    /\ is_on_after = is_on => last_toggle_after = last_toggle

\* C24  Cycle-state invariant: in every iteration, for each pump and each
\* circulation fan, last_toggle is assigned (takes the iteration's instant)
\* if the channel's is_on changes in the iteration, and keeps its value if
\* is_on does not change.
C24_CycleStateInvariant ==
    [][TickStep =>
         /\ \A i \in DOMAIN PUMPS_PINS :
              AssignedIffChanged(hardware_state.pumps_on[i],
                                 hardware_state'.pumps_on[i],
                                 hardware_state.last_pumps_toggle[i],
                                 hardware_state'.last_pumps_toggle[i])
         /\ \A i \in DOMAIN CIRCULATION_FANS_PINS :
              AssignedIffChanged(hardware_state.circulation_fans_on[i],
                                 hardware_state'.circulation_fans_on[i],
                                 hardware_state.last_circulation_fans_toggle[i],
                                 hardware_state'.last_circulation_fans_toggle[i])]_vars

-----------------------------------------------------------------------------
(* The database connection, under SpecFault.                               *)

\* C26  The loop holds no database connection across the sleep between
\* iterations, after iterations in which a database operation raised
\* included: while it sleeps, the connection db refers to is not open.
C26_NoConnectionAcrossSleep ==
    pc \in {"sleep", "backoff"} => local.db # "open"

-----------------------------------------------------------------------------
(* SpecInterlock: the water system with earlier steps of the iteration     *)
(* failing: the settings table cannot be read, or pumpOnDuration holds a   *)
(* text float() rejects.                                                   *)

InterlockInputs ==
    [tod : {Noon},
     dht : {<<Failed, Failed>>},
     floats : {AllFloatsOK, FirstFloatLow},
     overflow : {LOW, HIGH},
     gpio_fail : {{}},
     db_fail : {{}, {"load"}}]

InterlockTick == \E in \in InterlockInputs : Tick(in)

InterlockSleep == Sleep(MaxClockFault)

InterlockApi ==
    \/ \E mode \in {"auto", "fill"} : update_settings("waterSystemMode", mode)
    \/ \E d \in {"abc", "900"} : update_settings("pumpOnDuration", d)

NextInterlock == InterlockTick \/ InterlockSleep \/ InterlockApi

SpecInterlock == Init /\ [][NextInterlock]_vars

\* C27  The overflow interlock runs on every iteration, iterations in which
\* an earlier step fails included: an iteration begun while the overflow
\* sensor is triggered ends with the solenoid relay OFF, solenoid_on False
\* and water_error = "overflow".
C27_InterlockEveryIteration ==
    [][\A in \in InterlockInputs :
          (TickStep /\ in.overflow = LOW /\ Tick(in))
             => /\ gpio'[SOLENOID_RELAY_PIN] = HIGH
                /\ ~hardware_state'.solenoid_on
                /\ hardware_state'.water_error = "overflow"]_vars

-----------------------------------------------------------------------------
(* Relay and is_on flag of the cycling channels, under SpecCycle.          *)

\* C28  In "cycle" mode the relay equals the is_on flag at the end of every
\* iteration, the first iterations after a switch back from a manual mode
\* included: for each pump and circulation fan whose stored mode is "cycle",
\* the pin is LOW exactly when is_on is true.
C28_RelayFollowsFlag ==
    [][CompletedTick =>
         /\ \A i \in DOMAIN PUMPS_PINS :
              settings[PumpModeKey[i]] = "cycle"
                 => ((gpio'[PUMPS_PINS[i]] = LOW) <=> hardware_state'.pumps_on[i])
         /\ \A i \in DOMAIN CIRCULATION_FANS_PINS :
              settings[CirculationFanModeKey[i]] = "cycle"
                 => ((gpio'[CIRCULATION_FANS_PINS[i]] = LOW)
                        <=> hardware_state'.circulation_fans_on[i])]_vars

====
